---- MODULE Spec2Model ----
(***************************************************************************)
(* Model of the transaction execution engine                               *)
(* (sui-execution/latest/sui-adapter/src/execution_engine.rs).             *)
(*                                                                         *)
(* One behaviour is one call of execute_transaction_to_effects.  The       *)
(* variable pc is the position of that call in the code; every action is   *)
(* one statement (or one call of a collaborator) of the source.  The       *)
(* collaborators (the Move VM, the temporary store, the gas charger) are   *)
(* not part of the engine: their answers are drawn with \E from the        *)
(* outcomes their signatures allow.  A panic (panic!, expect, unwrap,      *)
(* assert!, unreachable!) moves pc to "halted", which has no successor.    *)
(***************************************************************************)
EXTENDS Integers, Sequences, FiniteSets, TLC

\* ------------------------------------------------------------------ bounds
\* Longest EndOfEpochTransaction list that is enumerated.
MaxEoeLen == 2
\* Longest ChangeEpoch.system_packages list that is enumerated.
MaxPkgs == 2
\* Largest package version that is enumerated.
MaxVersion == 2
\* Largest size the store's size queries may answer.
MaxSize == 5
\* protocol_config.max_serialized_tx_effects_size_bytes() and
\* max_size_written_objects(): the limit of a metered transaction, which is
\* the soft limit of an unmetered one.
NormalLim == 2
\* protocol_config.max_serialized_tx_effects_size_bytes_system_tx() and
\* max_size_written_objects_system_tx(): the hard limit of an unmetered
\* transaction.
SystemLim == 4

\* --------------------------------------------------------------- constants
\* sui_types::object::OBJECT_START_VERSION
OBJECT_START_VERSION == 1

\* ------------------------------------------------------------------- state
VARIABLES
    pc,                 \* position in execute_transaction_to_effects
    transaction_kind,   \* the TransactionKind (tag and payload)
    Mode,               \* the ExecutionMode type parameter
    inputs,             \* the other arguments of the call
    protocol_config,    \* the ProtocolConfig fields the engine reads
    result,             \* the execution result in flight (Ok or Err(kind))
    writes,             \* temporary_store: the pending object writes
    gas_charger,        \* the GasCharger's accounting
    cost_summary,       \* the GasCostSummary kept by execute_transaction
    builder,            \* the ProgrammableTransactionBuilder in flight
    i,                  \* index of the loop in flight (EndOfEpoch list, packages)
    vm,                 \* the MoveVM instance in use ("caller" or "fresh")
    trace,              \* the calls made so far, in order
    calls,              \* per call: how often, first and last position in trace
    checks,             \* outcome of each conservation pass so far
    conserved_on,       \* <<the store state the last passing conservation pass saw>>
    epoch_attempt,      \* outcome of the advance-epoch program in advance_epoch
    safe_mode_attempt,  \* outcome of the safe-mode advance-epoch program
    effects,            \* the effects assembled by into_effects, in order
    runs,               \* whether each program run by the VM so far succeeded
    run_vms,            \* the MoveVM instance each of these programs ran on
    input_charge,       \* outcome of gas_charger.charge_input_objects
    estimated_size,     \* <<effects_estimated_size>> while check_meter_limit runs
    written_size,       \* <<written_objects_size>> while check_written_objects_limit runs
    checked_inputs,     \* <<the mutable inputs check_ownership_invariants was given>>
    responses,          \* the collaborators' answers to a step that is taken twice
    first_run,          \* <<>>, or the point a step is taken twice from and its first run
    rcc_result,         \* the local `result` of run_conservation_checks
    status,             \* the ExecutionStatus computed from the result
    graph,              \* load_from_manifests: the DiGraph under construction
    visited,            \* (environment name, package path) -> node index
    cache,              \* PackageCache: the cell of each dependency path
    stack,              \* the calls of add_transitive_manifest_deps in progress
    load_pc,            \* position in load_from_manifests
    root_idx,           \* the node index the traversal returned
    loaded,             \* the packages read from manifests so far, in order
    fetches             \* the calls of PackageCache::fetch made on their own

engine_vars == <<pc, transaction_kind, Mode, inputs, protocol_config, result, writes,
                 gas_charger, cost_summary, builder, i, vm, trace, calls,
                 checks, conserved_on, epoch_attempt, safe_mode_attempt, effects, runs,
                 run_vms, input_charge, estimated_size, written_size, checked_inputs,
                 responses, first_run, rcc_result, status>>

\* The package graph builder shares no state with the execution engine.
graph_vars == <<graph, visited, cache, stack, load_pc, root_idx, loaded,
                fetches>>

vars == <<engine_vars, graph_vars>>

\* ------------------------------------------------------------------ values
Ok ==
    [tag |-> "Ok", kind |-> "none", current_size |-> 0, max_size |-> 0,
     congested_objects |-> <<>>]

Err(k) ==
    [tag |-> "Err", kind |-> k, current_size |-> 0, max_size |-> 0,
     congested_objects |-> <<>>]

ErrSize(k, cur, max) ==
    [tag |-> "Err", kind |-> k, current_size |-> cur, max_size |-> max,
     congested_objects |-> <<>>]

\* ExecutionCancelledDueToSharedObjectCongestion { congested_objects }
ErrCongested(ids) ==
    [Err("ExecutionCancelledDueToSharedObjectCongestion")
        EXCEPT !.congested_objects = ids]

is_ok(r) == r.tag = "Ok"

is_err(r) == r.tag = "Err"

\* The calls the trace records.
CallNames ==
    {"advance_epoch:Ok", "advance_epoch_safe_mode", "charge_gas",
     "charge_input_objects", "check_execution_results_consistency",
     "check_meter_limit", "check_ownership_invariants",
     "check_sui_conserved", "check_sui_conserved_expensive",
     "check_written_objects_limit", "conserve_unmetered_storage_rebate",
     "drop_writes", "execute:advance_epoch",
     "execute:advance_epoch_safe_mode",
     "execute:consensus_commit_prologue",
     "execute:programmable_transaction", "execute:publish",
     "execute:state_update", "execution_loop", "into_effects",
     "new_move_vm", "reset", "reset_storage_cost_and_rebate", "smash_gas",
     "upgrade_system_package", "create_object"}

NoCalls == [e \in CallNames |-> [count |-> 0, first |-> 0, last |-> 0]]

\* k calls of e in a row are appended to the trace.
PushN(e, k) ==
    /\ trace' = trace \o [n \in 1..k |-> e]
    /\ calls' = IF k = 0 THEN calls
                ELSE [calls EXCEPT ![e] =
                         [count |-> @.count + k,
                          first |-> IF @.count = 0 THEN Len(trace) + 1 ELSE @.first,
                          last |-> Len(trace) + k]]

Push(e) == PushN(e, 1)

\* A collaborator (the VM, the store, the gas charger) answers step `step`
\* with c.  A single execution keeps no record.  When a step is taken twice
\* (first_run is not empty) the answer is recorded, and the second time the
\* collaborator answers as it did the first time.
Answer(step, c) ==
    /\ responses' = IF first_run = <<>> THEN responses
                                        ELSE Append(responses, <<step, c>>)
    /\ Len(first_run) = 3 =>
           /\ Len(responses) < Len(first_run[3].responses)
           /\ first_run[3].responses[Len(responses) + 1][1] = step
           /\ first_run[3].responses[Len(responses) + 1][2] = c

\* The positions of the calls of e in the trace.
Positions(e) == {n \in 1..Len(trace) : trace[n] = e}

Count(e) == calls[e].count

\* Position of the first call of e in the trace, 0 when it was never called.
First(e) == calls[e].first

Last(e) == calls[e].last

\* calls is the summary of trace.
CallsMatchTrace ==
    \A e \in CallNames :
        LET P == Positions(e)
        IN  /\ calls[e].count = Cardinality(P)
            /\ calls[e].first
                   = (IF P = {} THEN 0 ELSE CHOOSE n \in P : \A m \in P : n <= m)
            /\ calls[e].last
                   = (IF P = {} THEN 0 ELSE CHOOSE n \in P : \A m \in P : m <= n)

\* The TransactionKind variants.
PrologueKinds ==
    {"ConsensusCommitPrologue", "ConsensusCommitPrologueV2",
     "ConsensusCommitPrologueV3", "ConsensusCommitPrologueV4"}

ProgrammableKinds ==
    {"ProgrammableTransaction", "ProgrammableSystemTransaction"}

StateUpdateKinds == {"AuthenticatorStateUpdate", "RandomnessStateUpdate"}

\* The EndOfEpochTransactionKind variants other than ChangeEpoch.
MaintenanceKinds ==
    {"AuthenticatorStateCreate", "AuthenticatorStateExpire",
     "RandomnessStateCreate", "DenyListStateCreate", "BridgeStateCreate",
     "BridgeCommitteeInit", "StoreExecutionTimeObservations",
     "AccumulatorRootCreate"}

EndOfEpochKinds == MaintenanceKinds \cup {"ChangeEpoch"}

SeqsUpTo(S, n) == UNION {[1..m -> S] : m \in 0..n}

Versions == OBJECT_START_VERSION..MaxVersion

\* A TransactionKind value: its tag, the EndOfEpochTransaction list, the
\* versions of ChangeEpoch.system_packages and the number of raw objects of a
\* GenesisTransaction.
Kind(tag, txns, pkgs, objects) ==
    [tag |-> tag, txns |-> txns, system_packages |-> pkgs, objects |-> objects]

ExecutionModes == {"Normal", "Genesis", "System", "DevInspect"}

\* The cancellation markers get_cancelled_objects may report: none, the two
\* the engine knows, and another SequenceNumber.
CancelReasons == {"None", "CONGESTED", "RANDOMNESS_UNAVAILABLE", "CANCELLED_READ"}

\* The lists of cancelled object ids that come with a marker.
CancelledIds == {<<>>, <<"0xb", "0xa">>}

\* Largest number of raw objects of a GenesisTransaction that is enumerated.
MaxObjects == 2

\* Bound: the dependencies declared by all manifests read in one traversal.
MaxDeps == 3

\* Bound: the calls of PackageCache::fetch that run side by side.
MaxFetches == 3

\* ------------------------------------------------- the execution modes
\* Mode::skip_conservation_checks(): only dev-inspect skips the checks.
skip_conservation_checks(m) == m = "DevInspect"

\* Mode::allow_arbitrary_function_calls(): only dev-inspect is permissive.
allow_arbitrary_function_calls(m) == m = "DevInspect"

\* ------------------------------------------------------------- the inputs
\* transaction_kind.is_end_of_epoch_tx()
is_end_of_epoch_tx(k) == k.tag \in {"ChangeEpoch", "EndOfEpochTransaction"}

\* Whether the dispatch of k can reach advance_epoch.
ReachesAdvanceEpoch(k) ==
    \/ k.tag = "ChangeEpoch"
    \/ /\ k.tag = "EndOfEpochTransaction"
       /\ Len(k.txns) > 0
       /\ k.txns[Len(k.txns)] = "ChangeEpoch"
       /\ \A n \in 1..(Len(k.txns) - 1) : k.txns[n] # "ChangeEpoch"

\* ============================================================ the gas charger
\* gas_charger.charge_gas(temporary_store, &mut result): what the charge may
\* make of the result.  Charging turns a success into a failure (out of gas
\* while charging storage) and leaves a failure as it is.
ChargeGasResults(r) == IF is_ok(r) THEN {r, Err("InsufficientGas")} ELSE {r}

\* gas_charger.reset(temporary_store): the pending writes are dropped and the
\* storage cost and rebate start again from zero.
ResetWrites == {}

ResetGas(g) == [g EXCEPT !.storage = FALSE]

\* The store state a conservation check looks at.
StoreState == [writes |-> writes, gas_charger |-> gas_charger]

\* ============================================================ execute_transaction
\* gas_charger.smash_gas(temporary_store)
SmashGas ==
    /\ pc = "smash_gas"
    /\ Push("smash_gas")
    /\ pc' = "charge_input_objects"
    /\ UNCHANGED <<transaction_kind, Mode, inputs, protocol_config, result,
                   writes, gas_charger, cost_summary, builder, i, vm, checks,
                   conserved_on, epoch_attempt, safe_mode_attempt, effects,
                   rcc_result, status,
                   runs, run_vms, input_charge, estimated_size, written_size, checked_inputs,
                   responses, first_run, graph_vars>>

\* Mutant: a failed input charge returns without the final gas charge.
ChargeInputObjects_NoFinalCharge ==
    /\ pc = "charge_input_objects"
    /\ Push("charge_input_objects")
    /\ \E charged \in BOOLEAN :
           /\ Answer("charge_input_objects", charged)
           /\ IF charged
              THEN /\ pc' = "short_circuit"
                   /\ result' = result
                   /\ input_charge' = "ok"
              ELSE /\ pc' = "conserve_unmetered_storage_rebate"
                   /\ result' = Err("InsufficientGas")
                   /\ input_charge' = "failed"
    /\ UNCHANGED <<transaction_kind, Mode, inputs, protocol_config, writes,
                   gas_charger, cost_summary, builder, i, vm, checks,
                   conserved_on, epoch_attempt, safe_mode_attempt, effects, rcc_result, status,
                   runs, run_vms, estimated_size, written_size, checked_inputs,
                   first_run, graph_vars>>

\* Mutant: the closure given to and_then runs after a failed input charge.
ChargeInputObjects_ClosureOnFailure ==
    /\ pc = "charge_input_objects"
    /\ Push("charge_input_objects")
    /\ \E charged \in BOOLEAN :
           /\ Answer("charge_input_objects", charged)
           /\ pc' = "short_circuit"
           /\ result' = IF charged THEN result ELSE Err("InsufficientGas")
           /\ input_charge' = IF charged THEN "ok" ELSE "failed"
    /\ UNCHANGED <<transaction_kind, Mode, inputs, protocol_config, writes,
                   gas_charger, cost_summary, builder, i, vm, checks,
                   conserved_on, epoch_attempt, safe_mode_attempt, effects,
                   rcc_result, status,
                   runs, run_vms, estimated_size, written_size, checked_inputs,
                   first_run, graph_vars>>

\* let result = gas_charger.charge_input_objects(temporary_store): on failure
\* the closure given to and_then is not run.
ChargeInputObjects ==
    /\ pc = "charge_input_objects"
    /\ Push("charge_input_objects")
    /\ \E charged \in BOOLEAN :
           /\ Answer("charge_input_objects", charged)
           /\ IF charged
              THEN /\ pc' = "short_circuit"
                   /\ result' = result
                   /\ input_charge' = "ok"
              ELSE /\ pc' = "charge_gas"
                   /\ result' = Err("InsufficientGas")
                   /\ input_charge' = "failed"
    /\ UNCHANGED <<transaction_kind, Mode, inputs, protocol_config, writes,
                   gas_charger, cost_summary, builder, i, vm, checks,
                   conserved_on, epoch_attempt, safe_mode_attempt, effects,
                   rcc_result, status,
                   runs, run_vms, estimated_size, written_size, checked_inputs,
                   first_run, graph_vars>>

\* Mutant: the cancellation marker is looked at first.
ShortCircuit_MarkerFirst(deny_cert, contains_stream_ended_input, cancelled_objects) ==
    IF cancelled_objects = "CONGESTED"
        THEN "ExecutionCancelledDueToSharedObjectCongestion"
    ELSE IF cancelled_objects = "RANDOMNESS_UNAVAILABLE"
        THEN "ExecutionCancelledDueToRandomnessUnavailable"
    ELSE IF cancelled_objects # "None" THEN "panic"
    ELSE IF deny_cert THEN "CertificateDenied"
    ELSE IF contains_stream_ended_input THEN "InputObjectDeleted"
    ELSE "dispatch"

\* The if / else-if chain ahead of the dispatch: the error it yields,
\* "panic" for an unknown cancellation marker, "dispatch" when nothing
\* short-circuits.
ShortCircuit(deny_cert, contains_stream_ended_input, cancelled_objects) ==
    IF deny_cert THEN "CertificateDenied"
    ELSE IF contains_stream_ended_input THEN "InputObjectDeleted"
    ELSE IF cancelled_objects = "CONGESTED"
        THEN "ExecutionCancelledDueToSharedObjectCongestion"
    ELSE IF cancelled_objects = "RANDOMNESS_UNAVAILABLE"
        THEN "ExecutionCancelledDueToRandomnessUnavailable"
    ELSE IF cancelled_objects # "None" THEN "panic"
    ELSE "dispatch"

ShortCircuitOf(inp) ==
    ShortCircuit(inp.deny_cert, inp.contains_stream_ended_input,
                 inp.cancelled_objects)

\* Mutant: the congestion error loses the cancelled object ids.
ShortCircuitResult_NoIds(inp) == Err(ShortCircuitOf(inp))

\* The error of a short-circuit; the congestion error carries the cancelled
\* objects: CongestedObjects(cancelled_objects).
ShortCircuitResult(inp) ==
    IF ShortCircuitOf(inp) = "ExecutionCancelledDueToSharedObjectCongestion"
    THEN ErrCongested(inp.cancelled_ids)
    ELSE Err(ShortCircuitOf(inp))

\* A short-circuit: the result is the error and execution_loop is not called.
ShortCircuitError ==
    /\ pc = "short_circuit"
    /\ ShortCircuitOf(inputs) \notin {"panic", "dispatch"}
    /\ result' = ShortCircuitResult(inputs)
    /\ pc' = "check_meter_limit"
    /\ UNCHANGED <<transaction_kind, Mode, inputs, protocol_config, writes,
                   gas_charger, cost_summary, builder, i, vm, trace, calls, checks,
                   conserved_on, epoch_attempt, safe_mode_attempt, effects,
                   rcc_result, status,
                   runs, run_vms, input_charge, estimated_size, written_size, checked_inputs,
                   responses, first_run, graph_vars>>

\* panic!("invalid cancellation reason SequenceNumber: {reason}")
InvalidCancellation ==
    /\ pc = "short_circuit"
    /\ ShortCircuitOf(inputs) = "panic"
    /\ pc' = "halted"
    /\ UNCHANGED <<transaction_kind, Mode, inputs, protocol_config, result,
                   writes, gas_charger, cost_summary, builder, i, vm, trace, calls,
                   checks, conserved_on, epoch_attempt, safe_mode_attempt, effects,
                   rcc_result, status,
                   runs, run_vms, input_charge, estimated_size, written_size, checked_inputs,
                   responses, first_run, graph_vars>>

\* Mutant: execution_loop is called whatever the short-circuit chain says.
Dispatch_Always ==
    /\ pc = "short_circuit"
    /\ ShortCircuitOf(inputs) # "panic"
    /\ Push("execution_loop")
    /\ pc' = "execution_loop"
    /\ UNCHANGED <<transaction_kind, Mode, inputs, protocol_config, result,
                   writes, gas_charger, cost_summary, builder, i, vm, checks,
                   conserved_on, epoch_attempt, safe_mode_attempt, effects,
                   rcc_result, status, runs, run_vms, input_charge, estimated_size, written_size, checked_inputs,
                   responses, first_run, graph_vars>>

\* execution_loop::<Mode>(...) is called.
Dispatch ==
    /\ pc = "short_circuit"
    /\ ShortCircuitOf(inputs) = "dispatch"
    /\ Push("execution_loop")
    /\ pc' = "execution_loop"
    /\ UNCHANGED <<transaction_kind, Mode, inputs, protocol_config, result,
                   writes, gas_charger, cost_summary, builder, i, vm, checks,
                   conserved_on, epoch_attempt, safe_mode_attempt, effects,
                   rcc_result, status,
                   runs, run_vms, input_charge, estimated_size, written_size, checked_inputs,
                   responses, first_run, graph_vars>>

\* ==================================================================== the VM
\* programmable_transactions::execution::execute: the VM collaborator runs a
\* program (a sequence of commands) against the temporary store.
Commands(p) == {p[n] : n \in 1..Len(p)}

\* The object writes a run of the commands cs leaves in the store.
Written(cs) == {[by |-> c, version |-> 0] : c \in cs}

VMErrorKinds == {"MoveAbort", "VMInvariantViolation"}

\* The outcomes of one run of program p: success with the writes of all its
\* commands, or an error that leaves either nothing or the writes of the
\* commands before the last one.
VMOutcomes(p) ==
    {[ok |-> TRUE, kind |-> "none", written |-> Written(Commands(p))]}
    \cup {[ok |-> FALSE, kind |-> k, written |-> w] :
            k \in VMErrorKinds,
            w \in {{}, Written(Commands(SubSeq(p, 1, Len(p) - 1)))}}

\* The store and the gas charger after a run with outcome o.
Ran(o) ==
    /\ writes' = writes \cup o.written
    /\ gas_charger' = [gas_charger EXCEPT !.storage = TRUE]
    /\ runs' = Append(runs, o.ok)
    /\ run_vms' = Append(run_vms, vm)
    /\ Answer("vm", o)
    /\ UNCHANGED <<input_charge, estimated_size, written_size, checked_inputs,
                   first_run, graph_vars>>

\* ============================================ the system transaction builder
setup_authenticator_state_create(b) == Append(b, "authenticator_state::create")

setup_authenticator_state_expire(b) ==
    Append(b, "authenticator_state::expire_jwks")

setup_randomness_state_create(b) == Append(b, "random::create")

setup_coin_deny_list_state_create(b) == Append(b, "deny_list::create")

setup_bridge_create(b) == Append(b, "bridge::create")

setup_bridge_committee_update(b) ==
    b \o <<"sui_system::validator_voting_powers", "bridge::init_bridge_committee">>

setup_store_execution_time_estimates(b) ==
    Append(b, "sui_system::store_execution_time_estimates")

\* Mutant: the call is put into a builder of its own.
setup_accumulator_root_create_NewBuilder(b) == <<"accumulator::create">>

setup_accumulator_root_create(b) == Append(b, "accumulator::create")

\* mint_epoch_rewards_in_pt: the two reward-minting calls.
mint_epoch_rewards_in_pt(b) ==
    b \o <<"balance::create_staking_rewards(storage_charge)",
           "balance::create_staking_rewards(computation_charge)">>

construct_advance_epoch_pt(b) ==
    mint_epoch_rewards_in_pt(b)
        \o <<"sui_system::advance_epoch", "balance::destroy_storage_rebates">>

construct_advance_epoch_safe_mode_pt ==
    Append(mint_epoch_rewards_in_pt(<<>>), "sui_system::advance_epoch_safe_mode")

\* The program of setup_consensus_commit, setup_authenticator_state_update
\* and setup_randomness_state_update.
SystemProgram(tag) ==
    IF tag \in PrologueKinds THEN <<"clock::consensus_commit_prologue">>
    ELSE IF tag = "AuthenticatorStateUpdate"
        THEN <<"authenticator_state::update_authenticator_state">>
    ELSE <<"random::update_randomness_state">>

\* The protocol feature an EndOfEpochTransactionKind asserts.
FeaturesOf(tx) ==
    CASE tx \in {"AuthenticatorStateCreate", "AuthenticatorStateExpire"} ->
            {"enable_jwk_consensus_updates"}
      [] tx = "RandomnessStateCreate" -> {"random_beacon"}
      [] tx = "DenyListStateCreate" -> {"enable_coin_deny_list_v1"}
      [] tx = "BridgeStateCreate" -> {"enable_bridge"}
      [] tx = "BridgeCommitteeInit" ->
            {"enable_bridge", "should_try_to_finalize_bridge_committee"}
      [] tx = "StoreExecutionTimeObservations" -> {"ExecutionTimeEstimate"}
      [] tx = "AccumulatorRootCreate" -> {"enable_accumulators"}
      [] OTHER -> {}

Features == UNION {FeaturesOf(tx) : tx \in MaintenanceKinds}

\* The builder call of each maintenance action.
Setup(tx, b) ==
    CASE tx = "AuthenticatorStateCreate" -> setup_authenticator_state_create(b)
      [] tx = "AuthenticatorStateExpire" -> setup_authenticator_state_expire(b)
      [] tx = "RandomnessStateCreate" -> setup_randomness_state_create(b)
      [] tx = "DenyListStateCreate" -> setup_coin_deny_list_state_create(b)
      [] tx = "BridgeStateCreate" -> setup_bridge_create(b)
      [] tx = "BridgeCommitteeInit" -> setup_bridge_committee_update(b)
      [] tx = "StoreExecutionTimeObservations" ->
            setup_store_execution_time_estimates(b)
      [] tx = "AccumulatorRootCreate" -> setup_accumulator_root_create(b)

\* ============================================================= execution_loop
\* TransactionKind::ChangeEpoch: advance_epoch is called with a new builder.
ExecChangeEpoch ==
    /\ pc = "execution_loop"
    /\ transaction_kind.tag = "ChangeEpoch"
    /\ builder' = <<>>
    /\ pc' = "advance_epoch"
    /\ UNCHANGED <<transaction_kind, Mode, inputs, protocol_config, result,
                   writes, gas_charger, cost_summary, i, vm, trace, calls, checks,
                   conserved_on, epoch_attempt, safe_mode_attempt, effects,
                   rcc_result, status,
                   runs, run_vms, input_charge, estimated_size, written_size, checked_inputs,
                   responses, first_run, graph_vars>>

\* TransactionKind::Genesis at a non-zero epoch: panic!.
GenesisWrongEpoch ==
    /\ pc = "execution_loop"
    /\ transaction_kind.tag = "Genesis"
    /\ inputs.epoch_id # 0
    /\ pc' = "halted"
    /\ UNCHANGED <<transaction_kind, Mode, inputs, protocol_config, result,
                   writes, gas_charger, cost_summary, builder, i, vm, trace, calls,
                   checks, conserved_on, epoch_attempt, safe_mode_attempt, effects,
                   rcc_result, status,
                   runs, run_vms, input_charge, estimated_size, written_size, checked_inputs,
                   responses, first_run, graph_vars>>

\* The n-th GenesisObject::RawObject { data, owner } of the list.
RawObject(n) == [data |-> <<"data", n>>, owner |-> <<"owner", n>>]

\* tx_ctx.borrow().digest()
TxDigest == "digest"

\* Mutant: the created object keeps a storage rebate.
GenesisObject_Rebate(n) ==
    [by |-> "genesis", version |-> n,
     data |-> RawObject(n).data, owner |-> RawObject(n).owner,
     previous_transaction |-> TxDigest, storage_rebate |-> 1]

\* The object create_object writes for the n-th raw object: ObjectInner
\* { data, owner, previous_transaction: digest, storage_rebate: 0 }.
GenesisObject(n) ==
    [by |-> "genesis", version |-> n,
     data |-> RawObject(n).data, owner |-> RawObject(n).owner,
     previous_transaction |-> TxDigest, storage_rebate |-> 0]

\* Mutant: the Genesis arm does not look at the epoch.
ExecGenesis_AnyEpoch ==
    /\ pc = "execution_loop"
    /\ transaction_kind.tag = "Genesis"
    /\ writes' = writes \cup {GenesisObject(n) : n \in 1..transaction_kind.objects}
    /\ PushN("create_object", transaction_kind.objects)
    /\ result' = Ok
    /\ pc' = "consistency"
    /\ UNCHANGED <<transaction_kind, Mode, inputs, protocol_config,
                   gas_charger, cost_summary, builder, i, vm, checks,
                   conserved_on, epoch_attempt, safe_mode_attempt, effects,
                   rcc_result, status,
                   runs, run_vms, input_charge, estimated_size, written_size, checked_inputs,
                   responses, first_run, graph_vars>>

\* TransactionKind::Genesis at epoch 0: every raw object is created in the
\* store; no program runs.
ExecGenesis ==
    /\ pc = "execution_loop"
    /\ transaction_kind.tag = "Genesis"
    /\ inputs.epoch_id = 0
    /\ writes' = writes \cup {GenesisObject(n) : n \in 1..transaction_kind.objects}
    /\ PushN("create_object", transaction_kind.objects)
    /\ result' = Ok
    /\ pc' = "consistency"
    /\ UNCHANGED <<transaction_kind, Mode, inputs, protocol_config,
                   gas_charger, cost_summary, builder, i, vm, checks,
                   conserved_on, epoch_attempt, safe_mode_attempt, effects,
                   rcc_result, status,
                   runs, run_vms, input_charge, estimated_size, written_size, checked_inputs,
                   responses, first_run, graph_vars>>

\* Mutant: the failure of the clock program is returned by `?`.
ExecConsensusCommitPrologue_Propagate ==
    /\ pc = "execution_loop"
    /\ transaction_kind.tag \in PrologueKinds
    /\ Push("execute:consensus_commit_prologue")
    /\ \E o \in VMOutcomes(SystemProgram(transaction_kind.tag)) :
           /\ Ran(o)
           /\ pc' = IF o.ok THEN "consistency" ELSE "check_meter_limit"
           /\ result' = IF o.ok THEN Ok ELSE Err(o.kind)
    /\ UNCHANGED <<transaction_kind, Mode, inputs, protocol_config,
                   cost_summary, builder, i, vm, checks, conserved_on,
                   epoch_attempt, safe_mode_attempt, effects,
                   rcc_result, status>>

\* TransactionKind::ConsensusCommitPrologue{,V2,V3,V4}: setup_consensus_commit
\* runs the clock program; .expect(...) panics on its failure.
ExecConsensusCommitPrologue ==
    /\ pc = "execution_loop"
    /\ transaction_kind.tag \in PrologueKinds
    /\ Push("execute:consensus_commit_prologue")
    /\ \E o \in VMOutcomes(SystemProgram(transaction_kind.tag)) :
           /\ Ran(o)
           /\ pc' = IF o.ok THEN "consistency" ELSE "halted"
    /\ result' = Ok
    /\ UNCHANGED <<transaction_kind, Mode, inputs, protocol_config,
                   cost_summary, builder, i, vm, checks, conserved_on,
                   epoch_attempt, safe_mode_attempt, effects,
                   rcc_result, status>>

\* TransactionKind::ProgrammableTransaction | ProgrammableSystemTransaction:
\* the program is handed to the VM; its error leaves execution_loop by `?`.
ExecProgrammable ==
    /\ pc = "execution_loop"
    /\ transaction_kind.tag \in ProgrammableKinds
    /\ Push("execute:programmable_transaction")
    /\ \E o \in VMOutcomes(<<"command_0", "command_1">>) :
           /\ Ran(o)
           /\ result' = IF o.ok THEN Ok ELSE Err(o.kind)
           /\ pc' = IF o.ok THEN "consistency" ELSE "check_meter_limit"
    /\ UNCHANGED <<transaction_kind, Mode, inputs, protocol_config,
                   cost_summary, builder, i, vm, checks, conserved_on,
                   epoch_attempt, safe_mode_attempt, effects,
                   rcc_result, status>>

\* TransactionKind::AuthenticatorStateUpdate | RandomnessStateUpdate: the
\* fixed program runs; its error leaves execution_loop by `?`.
ExecStateUpdate ==
    /\ pc = "execution_loop"
    /\ transaction_kind.tag \in StateUpdateKinds
    /\ Push("execute:state_update")
    /\ \E o \in VMOutcomes(SystemProgram(transaction_kind.tag)) :
           /\ Ran(o)
           /\ result' = IF o.ok THEN Ok ELSE Err(o.kind)
           /\ pc' = IF o.ok THEN "consistency" ELSE "check_meter_limit"
    /\ UNCHANGED <<transaction_kind, Mode, inputs, protocol_config,
                   cost_summary, builder, i, vm, checks, conserved_on,
                   epoch_attempt, safe_mode_attempt, effects,
                   rcc_result, status>>

\* TransactionKind::EndOfEpochTransaction: a new builder, then the loop over
\* the list.
ExecEndOfEpoch ==
    /\ pc = "execution_loop"
    /\ transaction_kind.tag = "EndOfEpochTransaction"
    /\ builder' = <<>>
    /\ i' = 1
    /\ pc' = "end_of_epoch_loop"
    /\ UNCHANGED <<transaction_kind, Mode, inputs, protocol_config, result,
                   writes, gas_charger, cost_summary, vm, trace, calls, checks,
                   conserved_on, epoch_attempt, safe_mode_attempt, effects,
                   rcc_result, status,
                   runs, run_vms, input_charge, estimated_size, written_size, checked_inputs,
                   responses, first_run, graph_vars>>

\* Mutant: the call of a maintenance action is put in front of the builder.
EndOfEpochMaintenance_Prepend ==
    /\ pc = "end_of_epoch_loop"
    /\ i <= Len(transaction_kind.txns)
    /\ transaction_kind.txns[i] \in MaintenanceKinds
    /\ IF FeaturesOf(transaction_kind.txns[i]) \cap protocol_config.disabled = {}
       THEN /\ builder' = Setup(transaction_kind.txns[i], <<>>) \o builder
            /\ i' = i + 1
            /\ pc' = pc
       ELSE /\ pc' = "halted"
            /\ UNCHANGED <<builder, i>>
    /\ UNCHANGED <<transaction_kind, Mode, inputs, protocol_config, result,
                   writes, gas_charger, cost_summary, vm, trace, calls, checks,
                   conserved_on, epoch_attempt, safe_mode_attempt, effects,
                   rcc_result, status, runs, run_vms, input_charge, estimated_size, written_size, checked_inputs,
                   responses, first_run, graph_vars>>

\* Mutant: the feature of a maintenance action is not asserted.
EndOfEpochMaintenance_NoAssert ==
    /\ pc = "end_of_epoch_loop"
    /\ i <= Len(transaction_kind.txns)
    /\ transaction_kind.txns[i] \in MaintenanceKinds
    /\ builder' = Setup(transaction_kind.txns[i], builder)
    /\ i' = i + 1
    /\ pc' = pc
    /\ UNCHANGED <<transaction_kind, Mode, inputs, protocol_config, result,
                   writes, gas_charger, cost_summary, vm, trace, calls, checks,
                   conserved_on, epoch_attempt, safe_mode_attempt, effects,
                   rcc_result, status,
                   runs, run_vms, input_charge, estimated_size, written_size, checked_inputs,
                   responses, first_run, graph_vars>>

\* A maintenance action: its feature is asserted, then its call is appended
\* to the builder.
EndOfEpochMaintenance ==
    /\ pc = "end_of_epoch_loop"
    /\ i <= Len(transaction_kind.txns)
    /\ transaction_kind.txns[i] \in MaintenanceKinds
    /\ IF FeaturesOf(transaction_kind.txns[i]) \cap protocol_config.disabled = {}
       THEN /\ builder' = Setup(transaction_kind.txns[i], builder)
            /\ i' = i + 1
            /\ pc' = pc
       ELSE /\ pc' = "halted"
            /\ UNCHANGED <<builder, i,
                   rcc_result, status>>
    /\ UNCHANGED <<transaction_kind, Mode, inputs, protocol_config, result,
                   writes, gas_charger, cost_summary, vm, trace, calls, checks,
                   conserved_on, epoch_attempt, safe_mode_attempt, effects,
                   rcc_result, status,
                   runs, run_vms, input_charge, estimated_size, written_size, checked_inputs,
                   responses, first_run, graph_vars>>

\* Mutant: the position of ChangeEpoch in the list is not asserted.
EndOfEpochChangeEpoch_NoAssert ==
    /\ pc = "end_of_epoch_loop"
    /\ i <= Len(transaction_kind.txns)
    /\ transaction_kind.txns[i] = "ChangeEpoch"
    /\ pc' = "advance_epoch"
    /\ UNCHANGED <<transaction_kind, Mode, inputs, protocol_config, result,
                   writes, gas_charger, cost_summary, builder, i, vm, trace, calls,
                   checks, conserved_on, epoch_attempt, safe_mode_attempt,
                   effects, rcc_result, status, runs, run_vms, input_charge, estimated_size, written_size, checked_inputs,
                   responses, first_run, graph_vars>>

\* EndOfEpochTransactionKind::ChangeEpoch: assert_eq!(i, len - 1), then
\* advance_epoch with the builder accumulated so far.
EndOfEpochChangeEpoch ==
    /\ pc = "end_of_epoch_loop"
    /\ i <= Len(transaction_kind.txns)
    /\ transaction_kind.txns[i] = "ChangeEpoch"
    /\ pc' = IF i = Len(transaction_kind.txns) THEN "advance_epoch" ELSE "halted"
    /\ UNCHANGED <<transaction_kind, Mode, inputs, protocol_config, result,
                   writes, gas_charger, cost_summary, builder, i, vm, trace, calls,
                   checks, conserved_on, epoch_attempt, safe_mode_attempt, effects,
                   rcc_result, status,
                   runs, run_vms, input_charge, estimated_size, written_size, checked_inputs,
                   responses, first_run, graph_vars>>

\* The list ended without a ChangeEpoch: unreachable!.
EndOfEpochUnreachable ==
    /\ pc = "end_of_epoch_loop"
    /\ i > Len(transaction_kind.txns)
    /\ pc' = "halted"
    /\ UNCHANGED <<transaction_kind, Mode, inputs, protocol_config, result,
                   writes, gas_charger, cost_summary, builder, i, vm, trace, calls,
                   checks, conserved_on, epoch_attempt, safe_mode_attempt, effects,
                   rcc_result, status,
                   runs, run_vms, input_charge, estimated_size, written_size, checked_inputs,
                   responses, first_run, graph_vars>>

\* temporary_store.check_execution_results_consistency(): its error is the
\* result of execution_loop.
CheckExecutionResultsConsistency ==
    /\ pc = "consistency"
    /\ Push("check_execution_results_consistency")
    /\ \E consistent \in BOOLEAN :
           /\ Answer("check_execution_results_consistency", consistent)
           /\ result' = IF consistent THEN result
                        ELSE Err("InvariantViolation(execution_results)")
    /\ pc' = "check_meter_limit"
    /\ UNCHANGED <<transaction_kind, Mode, inputs, protocol_config, writes,
                   gas_charger, cost_summary, builder, i, vm, checks,
                   conserved_on, epoch_attempt, safe_mode_attempt, effects,
                   rcc_result, status,
                   runs, run_vms, input_charge, estimated_size, written_size, checked_inputs,
                   first_run, graph_vars>>

\* ============================================================== advance_epoch
\* Where advance_epoch returns to: the ChangeEpoch branch falls through to
\* the consistency check, the EndOfEpochTransaction branch returns from
\* execution_loop at once.
AfterAdvanceEpoch(tag) ==
    IF tag = "ChangeEpoch" THEN "consistency" ELSE "check_meter_limit"

\* Mutant: the failure of the advance-epoch program is returned by `?`.
AdvanceEpochExecute_Propagate ==
    /\ pc = "advance_epoch"
    /\ Push("execute:advance_epoch")
    /\ builder' = construct_advance_epoch_pt(builder)
    /\ \E o \in VMOutcomes(construct_advance_epoch_pt(builder)) :
           /\ Ran(o)
           /\ epoch_attempt' = IF o.ok THEN "ok" ELSE "failed"
           /\ result' = IF o.ok THEN result ELSE Err(o.kind)
           /\ pc' = IF o.ok THEN "system_packages_vm" ELSE "check_meter_limit"
    /\ UNCHANGED <<transaction_kind, Mode, inputs, protocol_config,
                   cost_summary, i, vm, checks, conserved_on, effects,
                   rcc_result, status, safe_mode_attempt>>

\* construct_advance_epoch_pt(builder, &params) and its execution in System
\* mode.  The construction only adds pure arguments and the system-state
\* object to the builder and cannot fail.
AdvanceEpochExecute ==
    /\ pc = "advance_epoch"
    /\ Push("execute:advance_epoch")
    /\ builder' = construct_advance_epoch_pt(builder)
    /\ \E o \in VMOutcomes(construct_advance_epoch_pt(builder)) :
           /\ Ran(o)
           /\ epoch_attempt' = IF o.ok THEN "ok" ELSE "failed"
           /\ pc' = IF o.ok THEN "system_packages_vm" ELSE "drop_writes"
    /\ UNCHANGED <<transaction_kind, Mode, inputs, protocol_config, result,
                   cost_summary, i, vm, checks, conserved_on, effects,
                   rcc_result, status, safe_mode_attempt>>

\* Mutant: the writes of the failed attempt are kept.
AdvanceEpochDropWrites_Keeps ==
    /\ pc = "drop_writes"
    /\ Push("drop_writes")
    /\ writes' = writes
    /\ pc' = "reset_storage_cost_and_rebate"
    /\ UNCHANGED <<transaction_kind, Mode, inputs, protocol_config, result,
                   gas_charger, cost_summary, builder, i, vm, checks,
                   conserved_on, epoch_attempt, safe_mode_attempt, effects,
                   rcc_result, status,
                   runs, run_vms, input_charge, estimated_size, written_size, checked_inputs,
                   responses, first_run, graph_vars>>

\* temporary_store.drop_writes()
AdvanceEpochDropWrites ==
    /\ pc = "drop_writes"
    /\ Push("drop_writes")
    /\ writes' = {}
    /\ pc' = "reset_storage_cost_and_rebate"
    /\ UNCHANGED <<transaction_kind, Mode, inputs, protocol_config, result,
                   gas_charger, cost_summary, builder, i, vm, checks,
                   conserved_on, epoch_attempt, safe_mode_attempt, effects,
                   rcc_result, status,
                   runs, run_vms, input_charge, estimated_size, written_size, checked_inputs,
                   responses, first_run, graph_vars>>

\* gas_charger.reset_storage_cost_and_rebate()
AdvanceEpochResetStorage ==
    /\ pc = "reset_storage_cost_and_rebate"
    /\ Push("reset_storage_cost_and_rebate")
    /\ gas_charger' = ResetGas(gas_charger)
    /\ pc' = "safe_mode"
    /\ UNCHANGED <<transaction_kind, Mode, inputs, protocol_config, result,
                   writes, cost_summary, builder, i, vm, checks, conserved_on,
                   epoch_attempt, safe_mode_attempt, effects,
                   rcc_result, status,
                   runs, run_vms, input_charge, estimated_size, written_size, checked_inputs,
                   responses, first_run, graph_vars>>

\* Mutant: the branches of the fallback are swapped.
SafeModeDirect_Swapped(config) == ~config.advance_epoch_start_time_in_safe_mode

\* if protocol_config.get_advance_epoch_start_time_in_safe_mode()
SafeModeDirect(config) == config.advance_epoch_start_time_in_safe_mode

\* Mutant: after the direct fallback the advance-epoch program is tried again.
AdvanceEpochSafeModeDirect_Reattempt ==
    /\ pc = "safe_mode"
    /\ SafeModeDirect(protocol_config)
    /\ Push("advance_epoch_safe_mode")
    /\ writes' = writes \cup Written({"advance_epoch_safe_mode"})
    /\ pc' = "advance_epoch"
    /\ UNCHANGED <<transaction_kind, Mode, inputs, protocol_config, result,
                   gas_charger, cost_summary, builder, i, vm, checks,
                   conserved_on, epoch_attempt, safe_mode_attempt, effects,
                   rcc_result, status,
                   runs, run_vms, input_charge, estimated_size, written_size, checked_inputs,
                   responses, first_run, graph_vars>>

\* temporary_store.advance_epoch_safe_mode(&params, protocol_config): the
\* store is mutated directly.
AdvanceEpochSafeModeDirect ==
    /\ pc = "safe_mode"
    /\ SafeModeDirect(protocol_config)
    /\ Push("advance_epoch_safe_mode")
    /\ writes' = writes \cup Written({"advance_epoch_safe_mode"})
    /\ pc' = "system_packages_vm"
    /\ UNCHANGED <<transaction_kind, Mode, inputs, protocol_config, result,
                   gas_charger, cost_summary, builder, i, vm, checks,
                   conserved_on, epoch_attempt, safe_mode_attempt, effects,
                   rcc_result, status,
                   runs, run_vms, input_charge, estimated_size, written_size, checked_inputs,
                   responses, first_run, graph_vars>>

\* Mutant: the failure of the safe-mode program is returned as an error.
AdvanceEpochSafeModeProgram_Propagate ==
    /\ pc = "safe_mode"
    /\ ~SafeModeDirect(protocol_config)
    /\ Push("execute:advance_epoch_safe_mode")
    /\ builder' = construct_advance_epoch_safe_mode_pt
    /\ \E o \in VMOutcomes(construct_advance_epoch_safe_mode_pt) :
           /\ Ran(o)
           /\ safe_mode_attempt' = IF o.ok THEN "ok" ELSE "failed"
           /\ result' = IF o.ok THEN result ELSE Err(o.kind)
           /\ pc' = IF o.ok THEN "system_packages_vm" ELSE "check_meter_limit"
    /\ UNCHANGED <<transaction_kind, Mode, inputs, protocol_config,
                   cost_summary, i, vm, checks, conserved_on, epoch_attempt,
                   effects, rcc_result, status>>

\* construct_advance_epoch_safe_mode_pt and its execution;
\* .expect("Advance epoch with safe mode must succeed") panics on failure.
AdvanceEpochSafeModeProgram ==
    /\ pc = "safe_mode"
    /\ ~SafeModeDirect(protocol_config)
    /\ Push("execute:advance_epoch_safe_mode")
    /\ builder' = construct_advance_epoch_safe_mode_pt
    /\ \E o \in VMOutcomes(construct_advance_epoch_safe_mode_pt) :
           /\ Ran(o)
           /\ safe_mode_attempt' = IF o.ok THEN "ok" ELSE "failed"
           /\ pc' = IF o.ok THEN "system_packages_vm" ELSE "halted"
    /\ UNCHANGED <<transaction_kind, Mode, inputs, protocol_config, result,
                   cost_summary, i, vm, checks, conserved_on, epoch_attempt,
                   effects,
                   rcc_result, status>>

\* Mutant: the new VM is constructed, and the caller's VM is handed to
\* process_system_packages all the same.
AdvanceEpochChooseVM_HandsCallersVM ==
    /\ pc = "system_packages_vm"
    /\ IF protocol_config.fresh_vm_on_framework_upgrade
       THEN /\ Push("new_move_vm")
            /\ \E created \in BOOLEAN :
                   /\ Answer("new_move_vm", created)
                   /\ vm' = vm
                   /\ pc' = IF created THEN "process_system_packages"
                            ELSE "halted"
       ELSE /\ pc' = "process_system_packages"
            /\ UNCHANGED <<vm, trace, calls, responses>>
    /\ i' = 1
    /\ UNCHANGED <<transaction_kind, Mode, inputs, protocol_config, result,
                   writes, gas_charger, cost_summary, builder, checks,
                   conserved_on, epoch_attempt, safe_mode_attempt, effects,
                   rcc_result, status,
                   runs, run_vms, input_charge, estimated_size, written_size, checked_inputs,
                   first_run, graph_vars>>

\* if protocol_config.fresh_vm_on_framework_upgrade(): new_move_vm(...), whose
\* failure panics; else the caller's VM is used.
AdvanceEpochChooseVM ==
    /\ pc = "system_packages_vm"
    /\ IF protocol_config.fresh_vm_on_framework_upgrade
       THEN /\ Push("new_move_vm")
            /\ \E created \in BOOLEAN :
                   /\ Answer("new_move_vm", created)
                   /\ vm' = IF created THEN "fresh" ELSE vm
                   /\ pc' = IF created THEN "process_system_packages"
                            ELSE "halted"
       ELSE /\ pc' = "process_system_packages"
            /\ UNCHANGED <<vm, trace, calls, responses>>
    /\ i' = 1
    /\ UNCHANGED <<transaction_kind, Mode, inputs, protocol_config, result,
                   writes, gas_charger, cost_summary, builder, checks,
                   conserved_on, epoch_attempt, safe_mode_attempt, effects,
                   rcc_result, status,
                   runs, run_vms, input_charge, estimated_size, written_size, checked_inputs,
                   first_run, graph_vars>>

\* Mutant: the package is handed to the store with its version as listed.
UpgradedPackage_NoDecrement(v) ==
    [by |-> "upgrade_system_package", version |-> v]

\* The package object process_system_packages hands to the store for a
\* package of version v that is not the initial version: decrement_version().
UpgradedPackage(v) == [by |-> "upgrade_system_package", version |-> v - 1]

\* Mutant: a failed Publish program is skipped and the loop goes on.
PublishSystemPackage_NotFatal ==
    /\ pc = "process_system_packages"
    /\ i <= Len(transaction_kind.system_packages)
    /\ transaction_kind.system_packages[i] = OBJECT_START_VERSION
    /\ Push("execute:publish")
    /\ \E o \in VMOutcomes(<<"Publish">>) :
           /\ Ran(o)
           /\ pc' = pc
    /\ i' = i + 1
    /\ UNCHANGED <<transaction_kind, Mode, inputs, protocol_config, result,
                   cost_summary, builder, vm, checks, conserved_on,
                   epoch_attempt, safe_mode_attempt, effects,
                   rcc_result, status>>

\* process_system_packages, a package at OBJECT_START_VERSION: the Publish
\* program runs; .expect("System Package Publish must succeed").
PublishSystemPackage ==
    /\ pc = "process_system_packages"
    /\ i <= Len(transaction_kind.system_packages)
    /\ transaction_kind.system_packages[i] = OBJECT_START_VERSION
    /\ Push("execute:publish")
    /\ \E o \in VMOutcomes(<<"Publish">>) :
           /\ Ran(o)
           /\ pc' = IF o.ok THEN pc ELSE "halted"
    /\ i' = i + 1
    /\ UNCHANGED <<transaction_kind, Mode, inputs, protocol_config, result,
                   cost_summary, builder, vm, checks, conserved_on,
                   epoch_attempt, safe_mode_attempt, effects,
                   rcc_result, status>>

\* process_system_packages, any other version: the package is written with
\* its version decremented.
UpgradeSystemPackage ==
    /\ pc = "process_system_packages"
    /\ i <= Len(transaction_kind.system_packages)
    /\ transaction_kind.system_packages[i] # OBJECT_START_VERSION
    /\ Push("upgrade_system_package")
    /\ writes' = writes \cup {UpgradedPackage(transaction_kind.system_packages[i])}
    /\ i' = i + 1
    /\ UNCHANGED <<pc, transaction_kind, Mode, inputs, protocol_config, result,
                   gas_charger, cost_summary, builder, vm, checks,
                   conserved_on, epoch_attempt, safe_mode_attempt, effects,
                   rcc_result, status,
                   runs, run_vms, input_charge, estimated_size, written_size, checked_inputs,
                   responses, first_run, graph_vars>>

\* advance_epoch returns Ok(()); the caller's result is Ok(empty_results()).
AdvanceEpochReturn ==
    /\ pc = "process_system_packages"
    /\ i > Len(transaction_kind.system_packages)
    /\ Push("advance_epoch:Ok")
    /\ result' = Ok
    /\ pc' = AfterAdvanceEpoch(transaction_kind.tag)
    /\ UNCHANGED <<transaction_kind, Mode, inputs, protocol_config, writes,
                   gas_charger, cost_summary, builder, i, vm, checks,
                   conserved_on, epoch_attempt, safe_mode_attempt, effects,
                   rcc_result, status,
                   runs, run_vms, input_charge, estimated_size, written_size, checked_inputs,
                   responses, first_run, graph_vars>>

\* ============================================================ the limit checks
\* check_limit_by_meter!(is_metered, x, metered_limit, unmetered_hard_limit):
\* a metered transaction has one limit, which is hard; an unmetered one has
\* the metered limit as its soft limit and its own hard limit.
check_limit_by_meter(is_metered, x, metered_limit, unmetered_hard_limit) ==
    LET h == IF is_metered THEN metered_limit ELSE unmetered_hard_limit
    IN  IF x >= h THEN [crossed |-> "Hard", limit |-> h]
        ELSE IF x < metered_limit THEN [crossed |-> "None", limit |-> 0]
        ELSE [crossed |-> "Soft", limit |-> metered_limit]

\* check_meter_limit for an estimated effects size
check_meter_limit(unmetered, effects_estimated_size) ==
    LET c == check_limit_by_meter(~unmetered, effects_estimated_size,
                                  NormalLim, SystemLim)
    IN  IF c.crossed = "Hard"
        THEN ErrSize("EffectsTooLarge", effects_estimated_size, c.limit)
        ELSE Ok

\* check_written_objects_limit for a written-objects size
check_written_objects_limit(unmetered, written_objects_size) ==
    LET c == check_limit_by_meter(~unmetered, written_objects_size,
                                  NormalLim, SystemLim)
    IN  IF c.crossed = "Hard"
        THEN ErrSize("WrittenObjectsTooLarge", written_objects_size, c.limit)
        ELSE Ok

\* check_meter_limit is entered: let effects_estimated_size =
\* temporary_store.estimate_effects_size_upperbound()
EstimateEffectsSize ==
    /\ pc = "check_meter_limit"
    /\ Push("check_meter_limit")
    /\ \E size \in 0..MaxSize :
           /\ Answer("estimate_effects_size_upperbound", size)
           /\ estimated_size' = <<size>>
    /\ pc' = "meter_check"
    /\ UNCHANGED <<transaction_kind, Mode, inputs, protocol_config, result,
                   writes, gas_charger, cost_summary, builder, i, vm, checks,
                   conserved_on, epoch_attempt, safe_mode_attempt, effects,
                   rcc_result, status, runs, run_vms, input_charge, written_size, checked_inputs,
                   first_run, graph_vars>>

\* Mutant: a hard crossing replaces only a success, an earlier error stays.
CheckMeterLimit_KeepsError ==
    /\ pc = "meter_check"
    /\ LET meter_check ==
               check_meter_limit(inputs.unmetered, estimated_size[1])
       IN  result' = IF is_err(meter_check) /\ is_ok(result)
                     THEN meter_check ELSE result
    /\ estimated_size' = <<>>
    /\ pc' = IF is_ok(result') THEN "check_written_objects_limit" ELSE "charge_gas"
    /\ UNCHANGED <<transaction_kind, Mode, inputs, protocol_config, writes,
                   gas_charger, cost_summary, builder, i, vm, trace, calls, checks,
                   conserved_on, epoch_attempt, safe_mode_attempt, effects,
                   rcc_result, status, runs, run_vms, input_charge, written_size, checked_inputs,
                   responses, first_run, graph_vars>>

\* Mutant: the meter check also fails when a deadline of the engine's own,
\* which is neither an argument nor a collaborator's answer, has passed.
CheckMeterLimit_Deadline ==
    /\ pc = "meter_check"
    /\ \E late \in BOOLEAN :
           LET meter_check ==
                   IF late
                   THEN ErrSize("EffectsTooLarge", estimated_size[1], 0)
                   ELSE check_meter_limit(inputs.unmetered, estimated_size[1])
           IN  result' = IF is_err(meter_check) THEN meter_check ELSE result
    /\ estimated_size' = <<>>
    /\ pc' = IF is_ok(result') THEN "check_written_objects_limit" ELSE "charge_gas"
    /\ UNCHANGED <<transaction_kind, Mode, inputs, protocol_config, writes,
                   gas_charger, cost_summary, builder, i, vm, trace, calls, checks,
                   conserved_on, epoch_attempt, safe_mode_attempt, effects,
                   rcc_result, status, runs, run_vms, input_charge, written_size, checked_inputs,
                   responses, first_run, graph_vars>>

\* Mutant: the written-objects check follows whatever the result is.
CheckMeterLimit_ThenWritten ==
    /\ pc = "meter_check"
    /\ LET meter_check ==
               check_meter_limit(inputs.unmetered, estimated_size[1])
       IN  result' = IF is_err(meter_check) THEN meter_check ELSE result
    /\ estimated_size' = <<>>
    /\ pc' = "check_written_objects_limit"
    /\ UNCHANGED <<transaction_kind, Mode, inputs, protocol_config, writes,
                   gas_charger, cost_summary, builder, i, vm, trace, calls, checks,
                   conserved_on, epoch_attempt, safe_mode_attempt, effects,
                   rcc_result, status, runs, run_vms, input_charge, written_size, checked_inputs,
                   responses, first_run, graph_vars>>

\* The rest of check_meter_limit and its use:
\* let meter_check = check_meter_limit(...); if let Err(e) = meter_check
\* { execution_result = Err(e) }
CheckMeterLimit ==
    /\ pc = "meter_check"
    /\ LET meter_check ==
               check_meter_limit(inputs.unmetered, estimated_size[1])
       IN  result' = IF is_err(meter_check) THEN meter_check ELSE result
    /\ estimated_size' = <<>>
    /\ pc' = IF is_ok(result') THEN "check_written_objects_limit" ELSE "charge_gas"
    /\ UNCHANGED <<transaction_kind, Mode, inputs, protocol_config, writes,
                   gas_charger, cost_summary, builder, i, vm, trace, calls, checks,
                   conserved_on, epoch_attempt, safe_mode_attempt, effects,
                   rcc_result, status, runs, run_vms, input_charge, written_size, checked_inputs,
                   responses, first_run, graph_vars>>

\* if execution_result.is_ok() { check_written_objects_limit(...) }: the
\* function is entered.  When protocol_config has both
\* max_size_written_objects and max_size_written_objects_system_tx it reads
\* temporary_store.written_objects_size(); without one of them it returns
\* Ok(()) at once.  The two options are read here only.
MeasureWrittenObjects ==
    /\ pc = "check_written_objects_limit"
    /\ Push("check_written_objects_limit")
    /\ \E limits \in BOOLEAN :
           IF limits
           THEN /\ \E size \in 0..MaxSize :
                       /\ Answer("written_objects_size", <<limits, size>>)
                       /\ written_size' = <<size>>
                /\ pc' = "gas_check"
           ELSE /\ Answer("written_objects_size", <<limits>>)
                /\ written_size' = written_size
                /\ pc' = "charge_gas"
    /\ UNCHANGED <<transaction_kind, Mode, inputs, protocol_config, result, writes,
                   gas_charger, cost_summary, builder, i, vm, checks,
                   conserved_on, epoch_attempt, safe_mode_attempt, effects,
                   rcc_result, status, runs, run_vms, input_charge, estimated_size, checked_inputs,
                   first_run, graph_vars>>

\* Mutant: a hard crossing of the written-objects size only logs.
CheckWrittenObjectsLimit_OnlyLogs ==
    /\ pc = "gas_check"
    /\ result' = result
    /\ written_size' = <<>>
    /\ pc' = "charge_gas"
    /\ UNCHANGED <<transaction_kind, Mode, inputs, protocol_config, writes,
                   gas_charger, cost_summary, builder, i, vm, trace, calls, checks,
                   conserved_on, epoch_attempt, safe_mode_attempt, effects,
                   rcc_result, status, runs, run_vms, input_charge, estimated_size, checked_inputs,
                   responses, first_run, graph_vars>>

\* The rest of check_written_objects_limit and its use:
\* let gas_check = check_written_objects_limit(...);
\* if let Err(e) = gas_check { execution_result = Err(e) }
CheckWrittenObjectsLimit ==
    /\ pc = "gas_check"
    /\ LET gas_check ==
               check_written_objects_limit(inputs.unmetered, written_size[1])
       IN  result' = IF is_err(gas_check) THEN gas_check ELSE result
    /\ written_size' = <<>>
    /\ pc' = "charge_gas"
    /\ UNCHANGED <<transaction_kind, Mode, inputs, protocol_config, writes,
                   gas_charger, cost_summary, builder, i, vm, trace, calls, checks,
                   conserved_on, epoch_attempt, safe_mode_attempt, effects,
                   rcc_result, status, runs, run_vms, input_charge, estimated_size, checked_inputs,
                   responses, first_run, graph_vars>>

\* ===================================================== the final gas charge
\* What charge_gas leaves in the store when the result it is given is r: on
\* an error the pending writes may be dumped; a metered charge writes the
\* gas coin.
ChargedWrites(r, unmetered) ==
    {w \cup (IF unmetered THEN {} ELSE Written({"gas_coin"})) :
        w \in (IF is_err(r) THEN {writes, {}} ELSE {writes})}

\* let cost_summary = gas_charger.charge_gas(temporary_store, &mut result)
ChargeGas ==
    /\ pc = "charge_gas"
    /\ Push("charge_gas")
    /\ \E r \in ChargeGasResults(result) :
           /\ result' = r
           /\ writes' \in ChargedWrites(r, inputs.unmetered)
           /\ Answer("charge_gas", <<r, writes'>>)
    /\ gas_charger' = [charges |-> gas_charger.charges + 1, storage |-> TRUE]
    /\ cost_summary' = [charge |-> gas_charger.charges + 1]
    /\ pc' = "conserve_unmetered_storage_rebate"
    /\ UNCHANGED <<transaction_kind, Mode, inputs, protocol_config, builder,
                   i, vm, checks, conserved_on, epoch_attempt, safe_mode_attempt, effects,
                   rcc_result, status,
                   runs, run_vms, input_charge, estimated_size, written_size, checked_inputs,
                   first_run, graph_vars>>

\* temporary_store.conserve_unmetered_storage_rebate(
\*     gas_charger.unmetered_storage_rebate()): a non-zero rebate, which only
\* an unmetered charger accumulates, is put into the system state object.
ConserveUnmeteredStorageRebate ==
    /\ pc = "conserve_unmetered_storage_rebate"
    /\ Push("conserve_unmetered_storage_rebate")
    /\ \E rebate \in (IF inputs.unmetered THEN BOOLEAN ELSE {FALSE}) :
           /\ Answer("unmetered_storage_rebate", rebate)
           /\ writes' = IF rebate
                        THEN writes \cup Written({"unmetered_storage_rebate"})
                        ELSE writes
    /\ pc' = "run_conservation_checks"
    /\ UNCHANGED <<transaction_kind, Mode, inputs, protocol_config, result,
                   gas_charger, cost_summary, builder, i, vm, checks,
                   conserved_on, epoch_attempt, safe_mode_attempt, effects, rcc_result, status,
                   runs, run_vms, input_charge, estimated_size, written_size, checked_inputs,
                   first_run, graph_vars>>

\* ===================================================== run_conservation_checks
\* Mutant: the mode is not asked.
NeedsConservationChecks_IgnoreMode(is_genesis_tx, m) == ~is_genesis_tx

\* if !is_genesis_tx && !Mode::skip_conservation_checks()
NeedsConservationChecks(is_genesis_tx, m) ==
    ~is_genesis_tx /\ ~skip_conservation_checks(m)


\* Entry of run_conservation_checks: let mut result = Ok(()), then the guard.
RunConservationChecks ==
    /\ pc = "run_conservation_checks"
    /\ rcc_result' = Ok
    /\ pc' = IF NeedsConservationChecks(transaction_kind.tag = "Genesis", Mode)
             THEN "check_sui_conserved" ELSE "conservation_return"
    /\ UNCHANGED <<transaction_kind, Mode, inputs, protocol_config, result,
                   writes, gas_charger, cost_summary, builder, i, vm, trace, calls,
                   checks, conserved_on, epoch_attempt, safe_mode_attempt, effects, status,
                   runs, run_vms, input_charge, estimated_size, written_size, checked_inputs,
                   responses, first_run, graph_vars>>

\* The conservation pass in flight: 1 is the first, 2 the one after recovery.
Pass == Len(checks) + 1

\* Mutant: a violated recovery pass is surfaced as an error, not a panic.
OnViolation_Surface(pass) ==
    IF pass = 1 THEN "recovery" ELSE "conservation_return"

\* Mutant: a violated recovery pass starts another recovery.
OnViolation_Retry(pass) == "recovery"

\* What follows a violated conservation pass: recovery after the first,
\* panic! after the second.
OnViolation(pass) == IF pass = 1 THEN "recovery" ELSE "halted"

\* Mutant: the type-resolved check is run whatever enable_expensive_checks is.
AfterCheapCheck_Always(enable_expensive_checks) ==
    "check_sui_conserved_expensive"

\* Mutant: the type-resolved check is never run.
AfterCheapCheck_Never(enable_expensive_checks) == "conservation_return"

\* What follows check_sui_conserved when it passes: the type-resolved check
\* if enable_expensive_checks, else the pass is over.
AfterCheapCheck(enable_expensive_checks) ==
    IF enable_expensive_checks THEN "check_sui_conserved_expensive"
    ELSE "conservation_return"

\* A pass ended with outcome o at position next.
PassEnds(o, next) ==
    /\ checks' = Append(checks, o)
    /\ conserved_on' = IF o = "conserved" THEN <<StoreState>> ELSE conserved_on
    /\ pc' = next

\* temporary_store.check_sui_conserved(simple_conservation_checks,
\* cost_summary), of the first pass and of the recovery pass.
CheckSuiConserved ==
    /\ pc = "check_sui_conserved"
    /\ Push("check_sui_conserved")
    /\ \E conserved \in BOOLEAN :
           /\ Answer("check_sui_conserved", conserved)
           /\ IF ~conserved THEN PassEnds("violated", OnViolation(Pass))
              ELSE IF AfterCheapCheck(inputs.enable_expensive_checks)
                          = "conservation_return"
              THEN PassEnds("conserved", "conservation_return")
              ELSE /\ pc' = AfterCheapCheck(inputs.enable_expensive_checks)
                   /\ UNCHANGED <<checks, conserved_on>>
    /\ UNCHANGED <<transaction_kind, Mode, inputs, protocol_config, result,
                   writes, gas_charger, cost_summary, builder, i, vm,
                   epoch_attempt, safe_mode_attempt, effects, rcc_result, status,
                   runs, run_vms, input_charge, estimated_size, written_size, checked_inputs,
                   first_run, graph_vars>>

\* temporary_store.check_sui_conserved_expensive(cost_summary,
\* advance_epoch_gas_summary, &mut layout_resolver)
CheckSuiConservedExpensive ==
    /\ pc = "check_sui_conserved_expensive"
    /\ Push("check_sui_conserved_expensive")
    /\ \E conserved \in BOOLEAN :
           /\ Answer("check_sui_conserved_expensive", conserved)
           /\ IF conserved THEN PassEnds("conserved", "conservation_return")
              ELSE PassEnds("violated", OnViolation(Pass))
    /\ UNCHANGED <<transaction_kind, Mode, inputs, protocol_config, result,
                   writes, gas_charger, cost_summary, builder, i, vm,
                   epoch_attempt, safe_mode_attempt, effects, rcc_result, status,
                   runs, run_vms, input_charge, estimated_size, written_size, checked_inputs,
                   first_run, graph_vars>>

\* result = Err(conservation_err); gas_charger.reset(temporary_store)
RecoveryReset ==
    /\ pc = "recovery"
    /\ rcc_result' = Err("InvariantViolation(sui_conservation)")
    /\ Push("reset")
    /\ writes' = ResetWrites
    /\ gas_charger' = ResetGas(gas_charger)
    /\ pc' = "recovery_charge_gas"
    /\ UNCHANGED <<transaction_kind, Mode, inputs, protocol_config, result,
                   cost_summary, builder, i, vm, checks, conserved_on,
                   epoch_attempt, safe_mode_attempt, effects, status,
                   runs, run_vms, input_charge, estimated_size, written_size, checked_inputs,
                   responses, first_run, graph_vars>>

\* Mutant: the summary of the recovery charge replaces the one kept.
RecoveryChargeGas_NewSummary ==
    /\ pc = "recovery_charge_gas"
    /\ Push("charge_gas")
    /\ \E r \in ChargeGasResults(rcc_result) :
           /\ rcc_result' = r
           /\ writes' \in ChargedWrites(r, inputs.unmetered)
           /\ Answer("charge_gas", <<r, writes'>>)
    /\ gas_charger' = [charges |-> gas_charger.charges + 1, storage |-> TRUE]
    /\ cost_summary' = [charge |-> gas_charger.charges + 1]
    /\ pc' = "check_sui_conserved"
    /\ UNCHANGED <<transaction_kind, Mode, inputs, protocol_config, result,
                   builder, i, vm, checks, conserved_on,
                   epoch_attempt, safe_mode_attempt, effects, status,
                   runs, run_vms, input_charge, estimated_size, written_size, checked_inputs,
                   first_run, graph_vars>>

\* gas_charger.charge_gas(temporary_store, &mut result): the summary it
\* returns is dropped.
RecoveryChargeGas ==
    /\ pc = "recovery_charge_gas"
    /\ Push("charge_gas")
    /\ \E r \in ChargeGasResults(rcc_result) :
           /\ rcc_result' = r
           /\ writes' \in ChargedWrites(r, inputs.unmetered)
           /\ Answer("charge_gas", <<r, writes'>>)
    /\ gas_charger' = [charges |-> gas_charger.charges + 1, storage |-> TRUE]
    /\ pc' = "check_sui_conserved"
    /\ UNCHANGED <<transaction_kind, Mode, inputs, protocol_config, result,
                   cost_summary, builder, i, vm, checks, conserved_on,
                   epoch_attempt, safe_mode_attempt, effects, status,
                   runs, run_vms, input_charge, estimated_size, written_size, checked_inputs,
                   first_run, graph_vars>>

\* Mutant: the error of run_conservation_checks is dropped.
ConservationReturn_Swallow ==
    /\ pc = "conservation_return"
    /\ pc' = "execute_transaction_return"
    /\ UNCHANGED <<transaction_kind, Mode, inputs, protocol_config, result,
                   writes, gas_charger, cost_summary, builder, i, vm, trace, calls,
                   checks, conserved_on, epoch_attempt, safe_mode_attempt, effects, rcc_result,
                   status,
                   runs, run_vms, input_charge, estimated_size, written_size, checked_inputs,
                   responses, first_run, graph_vars>>

\* if let Err(e) = run_conservation_checks(...) { result = Err(e) };
\* (cost_summary, result, timings) is returned.
ConservationReturn ==
    /\ pc = "conservation_return"
    /\ result' = IF is_err(rcc_result) THEN rcc_result ELSE result
    /\ pc' = "execute_transaction_return"
    /\ UNCHANGED <<transaction_kind, Mode, inputs, protocol_config, writes,
                   gas_charger, cost_summary, builder, i, vm, trace, calls, checks,
                   conserved_on, epoch_attempt, safe_mode_attempt, effects, rcc_result, status,
                   runs, run_vms, input_charge, estimated_size, written_size, checked_inputs,
                   responses, first_run, graph_vars>>

\* ============================================ execute_transaction_to_effects
\* Mutant: the status does not look at the result.
ExecutionStatusOf_Success(r) == [tag |-> "Success", error |-> "none"]

\* let (status, command) = error.to_execution_status();
\* ExecutionStatus::new_failure(status, command) or ExecutionStatus::Success
ExecutionStatusOf(r) ==
    IF is_err(r) THEN [tag |-> "Failure", error |-> r.kind]
    ELSE [tag |-> "Success", error |-> "none"]

\* The error kinds for which debug_fatal! is reached.
IsInvariantViolation(k) ==
    k \in {"InvariantViolation(sui_conservation)",
           "InvariantViolation(execution_results)", "VMInvariantViolation"}

\* let status = ...: debug_fatal!, reached for an invariant violation when
\* debug_fatal_on_move_invariant_violation is set, panics in a debug build
\* and logs in a release build.
ComputeStatus ==
    /\ pc = "execute_transaction_return"
    /\ \E fatal \in (IF is_err(result) /\ IsInvariantViolation(result.kind)
                     THEN BOOLEAN ELSE {FALSE}) :
           /\ Answer("debug_fatal", fatal)
           /\ IF fatal
              THEN pc' = "halted" /\ status' = status
              ELSE pc' = "check_ownership_invariants"
                   /\ status' = ExecutionStatusOf(result)
    /\ UNCHANGED <<transaction_kind, Mode, inputs, protocol_config, result,
                   writes, gas_charger, cost_summary, builder, i, vm, trace, calls,
                   checks, conserved_on, epoch_attempt, safe_mode_attempt, effects, rcc_result,
                   runs, run_vms, input_charge, estimated_size, written_size, checked_inputs,
                   first_run, graph_vars>>

\* input_objects.mutable_inputs().keys()
MutableInputKeys == {"0xa", "0xb"}

\* let mutable_inputs = if enable_expensive_checks { ...keys()... } else
\* { HashSet::new() }
mutable_inputs == IF inputs.enable_expensive_checks THEN MutableInputKeys ELSE {}

\* Mutant: the ownership invariants are verified in every mode.
CheckOwnershipInvariants_EveryMode ==
    /\ pc = "check_ownership_invariants"
    /\ IF inputs.enable_expensive_checks
       THEN /\ Push("check_ownership_invariants")
            /\ checked_inputs' = <<mutable_inputs>>
            /\ \E holds \in BOOLEAN :
                   /\ Answer("check_ownership_invariants", holds)
                   /\ pc' = IF holds THEN "into_effects" ELSE "halted"
       ELSE /\ pc' = "into_effects"
            /\ UNCHANGED <<trace, calls, checked_inputs, responses>>
    /\ UNCHANGED <<transaction_kind, Mode, inputs, protocol_config, result,
                   writes, gas_charger, cost_summary, builder, i, vm, checks,
                   conserved_on, epoch_attempt, safe_mode_attempt, effects,
                   rcc_result, status, runs, run_vms, input_charge, estimated_size,
                   written_size,
                   first_run, graph_vars>>

\* if enable_expensive_checks && !Mode::allow_arbitrary_function_calls()
\* { temporary_store.check_ownership_invariants(.., &mutable_inputs, ..)
\*   .unwrap() }
CheckOwnershipInvariants ==
    /\ pc = "check_ownership_invariants"
    /\ IF inputs.enable_expensive_checks /\ ~allow_arbitrary_function_calls(Mode)
       THEN /\ Push("check_ownership_invariants")
            /\ checked_inputs' = <<mutable_inputs>>
            /\ \E holds \in BOOLEAN :
                   /\ Answer("check_ownership_invariants", holds)
                   /\ pc' = IF holds THEN "into_effects" ELSE "halted"
       ELSE /\ pc' = "into_effects"
            /\ UNCHANGED <<trace, calls, checked_inputs, responses>>
    /\ UNCHANGED <<transaction_kind, Mode, inputs, protocol_config, result,
                   writes, gas_charger, cost_summary, builder, i, vm, checks,
                   conserved_on, epoch_attempt, safe_mode_attempt, effects,
                   rcc_result, status, runs, run_vms, input_charge, estimated_size,
                   written_size,
                   first_run, graph_vars>>

\* The object the store commits for a pending write: the version of a
\* system package that was upgraded in place grows by one.
Committed(w) ==
    IF w.by = "upgrade_system_package" THEN [w EXCEPT !.version = @ + 1] ELSE w

\* temporary_store.into_effects(..., gas_cost_summary, status, ...), and the
\* return of (inner, gas_status, effects, timings, execution_result).
IntoEffects ==
    /\ pc = "into_effects"
    /\ Push("into_effects")
    /\ effects' = Append(effects, [status |-> status,
                                   gas_cost_summary |-> cost_summary,
                                   writes |-> {Committed(w) : w \in writes}])
    /\ pc' = "done"
    /\ UNCHANGED <<transaction_kind, Mode, inputs, protocol_config, result,
                   writes, gas_charger, cost_summary, builder, i, vm, checks,
                   conserved_on, epoch_attempt, safe_mode_attempt, rcc_result, status,
                   runs, run_vms, input_charge, estimated_size, written_size, checked_inputs,
                   responses, first_run, graph_vars>>

\* ==================================================================== Init
\* ---- the transaction kinds that are enumerated
SimpleKinds ==
    {Kind(t, <<>>, <<>>, 0) :
        t \in PrologueKinds \cup ProgrammableKinds \cup StateUpdateKinds}

GenesisKinds == {Kind("Genesis", <<>>, <<>>, n) : n \in 0..MaxObjects}

ChangeEpochKinds ==
    {Kind("ChangeEpoch", <<>>, p, 0) : p \in SeqsUpTo(Versions, MaxPkgs)}

\* An EndOfEpochTransaction varies the list of maintenance actions; the
\* ChangeEpoch it ends with carries no system package.  The package lists
\* are enumerated with TransactionKind::ChangeEpoch, which hands them to
\* the same advance_epoch.
EndOfEpochTransactionKinds ==
    {Kind("EndOfEpochTransaction", t, <<>>, 0) :
        t \in SeqsUpTo(EndOfEpochKinds, MaxEoeLen)}

TransactionKinds ==
    SimpleKinds \cup GenesisKinds \cup ChangeEpochKinds
        \cup EndOfEpochTransactionKinds

\* The kinds for which the short-circuit conditions are enumerated; the
\* chain of conditions does not read the kind.
ShortCircuitKinds ==
    {Kind("ProgrammableTransaction", <<>>, <<>>, 0),
     Kind("Genesis", <<>>, <<>>, 1),
     Kind("ChangeEpoch", <<>>, <<>>, 0)}

\* The modes enumerated for kind k.  The engine reads a mode only through
\* skip_conservation_checks and allow_arbitrary_function_calls, which tell
\* dev-inspect from the three other modes.
ModesFor(k) ==
    IF is_end_of_epoch_tx(k) THEN {"Normal", "DevInspect"} ELSE ExecutionModes

\* The arguments enumerated for kind k.  The epoch is read only by Genesis;
\* system transactions carry an unmetered gas status.
InputsFor(k) ==
    {inp \in
        [deny_cert : IF k \in ShortCircuitKinds THEN BOOLEAN ELSE {FALSE},
         contains_stream_ended_input :
             IF k \in ShortCircuitKinds THEN BOOLEAN ELSE {FALSE},
         cancelled_objects :
             IF k \in ShortCircuitKinds THEN CancelReasons ELSE {"None"},
         cancelled_ids : CancelledIds,
         enable_expensive_checks : BOOLEAN,
         unmetered : IF k.tag \in ProgrammableKinds THEN BOOLEAN ELSE {TRUE},
         epoch_id : IF k.tag = "Genesis" THEN 0..1 ELSE {1}] :
        inp.cancelled_objects = "None" => inp.cancelled_ids = <<>>}

\* The protocol configurations enumerated for kind k: the safe-mode and VM
\* flags are read only inside advance_epoch, a feature flag only by the
\* maintenance action that asserts it; at most one feature is disabled.
ConfigsFor(k) ==
    [advance_epoch_start_time_in_safe_mode :
         IF ReachesAdvanceEpoch(k) THEN BOOLEAN ELSE {FALSE},
     fresh_vm_on_framework_upgrade :
         IF ReachesAdvanceEpoch(k) THEN BOOLEAN ELSE {FALSE},
     disabled :
         {{}} \cup {{f} : f \in UNION {FeaturesOf(k.txns[n]) : n \in 1..Len(k.txns)}}]

NoSummary == [charge |-> 0]

\* =================================================== the package graph builder
\* (src/external-crates/move/crates/move-package-alt/src/graph/builder.rs)
\* The paths packages are fetched from, and the names of the environments.
PackagePaths == {"a", "b", "c"}

EnvironmentNames == {"mainnet", "testnet"}

\* The (path, env) arguments of load_from_manifests.
RootPath == "a"

RootEnvironment == "mainnet"

\* A dependency as a manifest declares it: where the package is fetched
\* from (dep.unfetched_path()) and the environment to use for it
\* (dep.use_environment()).  The name it is declared under is its position.
Dependencies == [path : PackagePaths, use_environment : EnvironmentNames]

\* Option<T>
None == <<>>

Some(x) == <<x>>

\* The dependencies declared by the packages of s, together.
RECURSIVE Declared(_)
Declared(s) ==
    IF s = <<>> THEN 0 ELSE Len(s[1].direct_deps) + Declared(Tail(s))

\* The packages Package::load and Package::load_root can read at path p: any
\* manifest that keeps the dependencies declared so far within MaxDeps.
Packages(p) ==
    {[path |-> p, direct_deps |-> d] :
        d \in SeqsUpTo(Dependencies, MaxDeps - Declared(loaded))}

\* The same for a call of fetch made on its own, which does not look at the
\* dependencies of what it loads: the manifests that declare one dependency
\* at most stand for all.
FetchedPackages(p) ==
    {package \in Packages(p) : Len(package.direct_deps) <= 1}

\* Arc::new(package): the package behind a pointer of its own, which is the
\* number of the load that read it.  Its fields are read through the pointer.
ArcNew(package) ==
    [ptr |-> Len(loaded) + 1, path |-> package.path,
     direct_deps |-> package.direct_deps]

\* DiGraph::new(), and the caches of a new PackageGraphBuilder
NewGraph == [nodes |-> <<>>, edges |-> <<>>]

NewCache == [p \in PackagePaths |-> None]

\* One call of add_transitive_manifest_deps(package, env, graph, visited):
\* its arguments, the index of its node, the dependency its loop is at, where
\* it is ("entry", "deps", "edge"), and the index its last recursive call
\* returned.
Call(package, env) ==
    [package |-> package, env |-> env, index |-> 0, next |-> 1, at |-> "entry",
     dep_index |-> 0]

\* The call that is running, and the key of its package in visited.
Top == stack[Len(stack)]

Key(c) == <<c.env, c.package.path>>

\* The running call changes its own locals.
TopBecomes(c) == stack' = [stack EXCEPT ![Len(stack)] = c]

\* The running call returns Ok(index): to load_from_manifests for the call
\* on the root, to the loop of the caller otherwise.
Returns(index) ==
    IF Len(stack) = 1
    THEN /\ stack' = <<>>
         /\ root_idx' = index
         /\ load_pc' = "convert"
    ELSE /\ stack' = [SubSeq(stack, 1, Len(stack) - 1) EXCEPT
                         ![Len(stack) - 1] =
                             [@ EXCEPT !.at = "edge", !.dep_index = index]]
         /\ UNCHANGED <<root_idx, load_pc>>

\* An error leaves every call in progress through its `?`, and
\* load_from_manifests through its own.
Fails ==
    /\ stack' = <<>>
    /\ load_pc' = "err"

\* load_from_manifests up to the call on the root: a new graph, a new visited
\* map, and Package::load_root(path, env)?.
LoadFromManifests ==
    /\ load_pc = "idle"
    /\ graph' = NewGraph
    /\ visited' = <<>>
    /\ \/ /\ Fails
          /\ UNCHANGED loaded
       \/ \E root \in Packages(RootPath) :
              /\ loaded' = Append(loaded, root)
              /\ stack' = <<Call(ArcNew(root), RootEnvironment)>>
              /\ load_pc' = "traverse"
    /\ UNCHANGED <<cache, root_idx, fetches, engine_vars>>

\* Mutant: a repeated visit adds a node of its own and returns its index.
VisitOccupied_NewNode ==
    /\ load_pc = "traverse"
    /\ stack # <<>>
    /\ Top.at = "entry"
    /\ Key(Top) \in DOMAIN visited
    /\ graph' = [graph EXCEPT !.nodes =
                    Append(@, Some([package |-> Top.package,
                                    use_env |-> Top.env]))]
    /\ Returns(Len(graph.nodes) + 1)
    /\ UNCHANGED <<visited, cache, loaded, fetches, engine_vars>>

\* Entry::Occupied(entry) => return Ok(*entry.get())
VisitOccupied ==
    /\ load_pc = "traverse"
    /\ stack # <<>>
    /\ Top.at = "entry"
    /\ Key(Top) \in DOMAIN visited
    /\ Returns(visited[Key(Top)])
    /\ UNCHANGED <<graph, visited, cache, loaded, fetches, engine_vars>>

\* Mutant: the placeholder node is added, and the key is not recorded.
VisitVacant_NotRecorded ==
    /\ load_pc = "traverse"
    /\ stack # <<>>
    /\ Top.at = "entry"
    /\ Key(Top) \notin DOMAIN visited
    /\ graph' = [graph EXCEPT !.nodes = Append(@, None)]
    /\ visited' = visited
    /\ TopBecomes([Top EXCEPT !.index = Len(graph.nodes) + 1, !.at = "deps"])
    /\ UNCHANGED <<cache, load_pc, root_idx, loaded, fetches, engine_vars>>

\* Entry::Vacant(entry) => *entry.insert(graph.add_node(None))
VisitVacant ==
    /\ load_pc = "traverse"
    /\ stack # <<>>
    /\ Top.at = "entry"
    /\ Key(Top) \notin DOMAIN visited
    /\ graph' = [graph EXCEPT !.nodes = Append(@, None)]
    /\ visited' = (Key(Top) :> (Len(graph.nodes) + 1)) @@ visited
    /\ TopBecomes([Top EXCEPT !.index = Len(graph.nodes) + 1, !.at = "deps"])
    /\ UNCHANGED <<cache, load_pc, root_idx, loaded, fetches, engine_vars>>

\* The dependency the loop of the running call is at.
Dep == Top.package.direct_deps[Top.next]

\* The recursive call on the fetched package, in the environment named by
\* the dependency (Environment::new(dep.use_environment(), env.id())).
Recurse(fetched) ==
    stack' = Append(stack, Call(fetched, Dep.use_environment))

\* self.cache.fetch(dep, env).await? when the cell of the path holds a
\* package, and the recursive call
FetchCached ==
    /\ load_pc = "traverse"
    /\ stack # <<>>
    /\ Top.at = "deps"
    /\ Top.next <= Len(Top.package.direct_deps)
    /\ cache[Dep.path] # None
    /\ Recurse(cache[Dep.path][1])
    /\ UNCHANGED <<graph, visited, cache, load_pc, root_idx, loaded, fetches, engine_vars>>

\* Mutant: a failed fetch ends the call with Ok(index).
FetchLoad_OkOnError ==
    /\ load_pc = "traverse"
    /\ stack # <<>>
    /\ Top.at = "deps"
    /\ Top.next <= Len(Top.package.direct_deps)
    /\ cache[Dep.path] = None
    /\ \/ /\ Returns(Top.index)
          /\ UNCHANGED <<cache, loaded>>
       \/ \E package \in Packages(Dep.path) :
              /\ cache' = [cache EXCEPT ![Dep.path] = Some(ArcNew(package))]
              /\ loaded' = Append(loaded, package)
              /\ Recurse(ArcNew(package))
              /\ UNCHANGED <<load_pc, root_idx>>
    /\ UNCHANGED <<graph, visited, fetches, engine_vars>>

\* self.cache.fetch(dep, env).await? when the cell is empty: Package::load
\* fails and the error is returned, or it succeeds, the cell is filled, and
\* the recursive call follows
FetchLoad ==
    /\ load_pc = "traverse"
    /\ stack # <<>>
    /\ Top.at = "deps"
    /\ Top.next <= Len(Top.package.direct_deps)
    /\ cache[Dep.path] = None
    /\ \/ /\ Fails
          /\ UNCHANGED <<cache, root_idx, loaded>>
       \/ \E package \in Packages(Dep.path) :
              /\ cache' = [cache EXCEPT ![Dep.path] = Some(ArcNew(package))]
              /\ loaded' = Append(loaded, package)
              /\ Recurse(ArcNew(package))
              /\ UNCHANGED <<load_pc, root_idx>>
    /\ UNCHANGED <<graph, visited, fetches, engine_vars>>

\* let dep_index = Box::pin(future).await?;
\* graph.add_edge(index, dep_index, edge_name): the edge's name, the
\* dependency's or the legacy package's own, is left out.
AddEdge ==
    /\ load_pc = "traverse"
    /\ stack # <<>>
    /\ Top.at = "edge"
    /\ graph' = [graph EXCEPT !.edges =
                    Append(@, [from |-> Top.index, to |-> Top.dep_index])]
    /\ TopBecomes([Top EXCEPT !.next = @ + 1, !.at = "deps"])
    /\ UNCHANGED <<visited, cache, load_pc, root_idx, loaded, fetches, engine_vars>>

\* After the loop: graph.node_weight_mut(index).replace(PackageNode
\* { package, use_env: env.name() }); Ok(index)
FillNode ==
    /\ load_pc = "traverse"
    /\ stack # <<>>
    /\ Top.at = "deps"
    /\ Top.next > Len(Top.package.direct_deps)
    /\ graph' = [graph EXCEPT !.nodes[Top.index] =
                    Some([package |-> Top.package, use_env |-> Top.env])]
    /\ Returns(Top.index)
    /\ UNCHANGED <<visited, cache, loaded, fetches, engine_vars>>

\* graph.map(|_, node| node.clone().expect(..), ..): a None panics; otherwise
\* PackageGraph { inner: graph, root_idx } is returned.
ConvertGraph ==
    /\ load_pc = "convert"
    /\ IF \E n \in DOMAIN graph.nodes : graph.nodes[n] = None
       THEN /\ load_pc' = "panicked"
            /\ graph' = graph
       ELSE /\ load_pc' = "ok"
            /\ graph' = [graph EXCEPT !.nodes =
                            [n \in DOMAIN graph.nodes |-> graph.nodes[n][1]]]
    /\ UNCHANGED <<visited, cache, stack, root_idx, loaded, fetches, engine_vars>>

\* ------------------------------------ PackageCache::fetch, called on its own
\* A call of fetch(dep, env) for the dependency path `path`, up to its first
\* await: the cell of the path is taken from the map under the lock, and if
\* it holds a package (Some(Some(cached))) the call returns it; otherwise the
\* call goes on to Package::load(..).await, where other calls can run.
\* `loads` and `retry` are kept for the record: whether the call went on to
\* load, and whether a fetch of the path had failed before it started.
FailedBefore(path) ==
    \E t \in DOMAIN fetches : fetches[t].path = path /\ fetches[t].at = "err"

Fetch(path) ==
    /\ Len(fetches) < MaxFetches
    /\ fetches' = Append(fetches,
                      IF cache[path] # None
                      THEN [path |-> path, at |-> "ok", returned |-> cache[path],
                            loads |-> FALSE, retry |-> FailedBefore(path)]
                      ELSE [path |-> path, at |-> "load", returned |-> None,
                            loads |-> TRUE, retry |-> FailedBefore(path)])
    /\ UNCHANGED <<graph, visited, cache, stack, load_pc, root_idx, loaded,
                   engine_vars>>

\* cell.get_or_init(async || Some(node.clone())): the cell keeps the value it
\* has, and takes the new one only when it has none.
get_or_init(cell, node) == IF cell = None THEN Some(node) ELSE cell

\* Mutant: a failed load is stored in the cell.
PackageLoad_CachesError(t) ==
    /\ t \in DOMAIN fetches
    /\ fetches[t].at = "load"
    /\ \/ /\ fetches' = [fetches EXCEPT ![t].at = "err"]
          /\ cache' = [cache EXCEPT ![fetches[t].path] =
                           get_or_init(@, [ptr |-> 0, path |-> fetches[t].path,
                                           direct_deps |-> <<>>])]
          /\ UNCHANGED loaded
       \/ \E package \in FetchedPackages(fetches[t].path) :
              /\ cache' = [cache EXCEPT ![fetches[t].path] =
                               get_or_init(@, ArcNew(package))]
              /\ loaded' = Append(loaded, package)
              /\ fetches' = [fetches EXCEPT
                                 ![t].at = "ok",
                                 ![t].returned = Some(ArcNew(package))]
    /\ UNCHANGED <<graph, visited, stack, load_pc, root_idx, engine_vars>>

\* The rest of call t, from the return of Package::load: an error is
\* returned and the cell is left alone; a package is put behind a new Arc
\* (node), offered to the cell with get_or_init, and Ok(node) is returned.
PackageLoad(t) ==
    /\ t \in DOMAIN fetches
    /\ fetches[t].at = "load"
    /\ \/ /\ fetches' = [fetches EXCEPT ![t].at = "err"]
          /\ UNCHANGED <<cache, loaded>>
       \/ \E package \in FetchedPackages(fetches[t].path) :
              /\ cache' = [cache EXCEPT ![fetches[t].path] =
                               get_or_init(@, ArcNew(package))]
              /\ loaded' = Append(loaded, package)
              /\ fetches' = [fetches EXCEPT
                                 ![t].at = "ok",
                                 ![t].returned = Some(ArcNew(package))]
    /\ UNCHANGED <<graph, visited, stack, load_pc, root_idx, engine_vars>>

Init ==
    /\ pc = "smash_gas"
    /\ transaction_kind \in TransactionKinds
    /\ Mode \in ModesFor(transaction_kind)
    /\ inputs \in InputsFor(transaction_kind)
    /\ protocol_config \in ConfigsFor(transaction_kind)
    /\ result = Ok
    /\ writes = {}
    /\ gas_charger = [charges |-> 0, storage |-> FALSE]
    /\ cost_summary = NoSummary
    /\ builder = <<>>
    /\ i = 0
    /\ vm = "caller"
    /\ trace = <<>>
    /\ calls = NoCalls
    /\ checks = <<>>
    /\ conserved_on = <<>>
    /\ epoch_attempt = "none"
    /\ safe_mode_attempt = "none"
    /\ runs = <<>>
    /\ run_vms = <<>>
    /\ input_charge = "none"
    /\ estimated_size = <<>>
    /\ written_size = <<>>
    /\ checked_inputs = <<>>
    /\ responses = <<>>
    /\ first_run = <<>>
    /\ effects = <<>>
    /\ rcc_result = Ok
    /\ status = "none"
    /\ graph = NewGraph
    /\ visited = <<>>
    /\ cache = NewCache
    /\ stack = <<>>
    /\ load_pc = "idle"
    /\ root_idx = 0
    /\ loaded = <<>>
    /\ fetches = <<>>

Next ==
    \/ SmashGas
    \/ ChargeInputObjects
    \/ ShortCircuitError
    \/ InvalidCancellation
    \/ Dispatch
    \/ ExecChangeEpoch
    \/ GenesisWrongEpoch
    \/ ExecGenesis
    \/ ExecConsensusCommitPrologue
    \/ ExecProgrammable
    \/ ExecStateUpdate
    \/ ExecEndOfEpoch
    \/ EndOfEpochMaintenance
    \/ EndOfEpochChangeEpoch
    \/ EndOfEpochUnreachable
    \/ CheckExecutionResultsConsistency
    \/ AdvanceEpochExecute
    \/ AdvanceEpochDropWrites
    \/ AdvanceEpochResetStorage
    \/ AdvanceEpochSafeModeDirect
    \/ AdvanceEpochSafeModeProgram
    \/ AdvanceEpochChooseVM
    \/ PublishSystemPackage
    \/ UpgradeSystemPackage
    \/ AdvanceEpochReturn
    \/ EstimateEffectsSize
    \/ CheckMeterLimit
    \/ MeasureWrittenObjects
    \/ CheckWrittenObjectsLimit
    \/ ChargeGas
    \/ ConserveUnmeteredStorageRebate
    \/ RunConservationChecks
    \/ CheckSuiConserved
    \/ CheckSuiConservedExpensive
    \/ RecoveryReset
    \/ RecoveryChargeGas
    \/ ConservationReturn
    \/ ComputeStatus
    \/ CheckOwnershipInvariants
    \/ IntoEffects

Spec == Init /\ [][Next]_vars

\* ------------------------------------------------ the same step, twice
\* The locals of the call, the store and the gas charger: everything but the
\* arguments, which never change.
Locals ==
    [pc |-> pc, result |-> result, writes |-> writes,
     gas_charger |-> gas_charger, cost_summary |-> cost_summary,
     builder |-> builder, i |-> i, vm |-> vm, trace |-> trace, calls |-> calls,
     checks |-> checks, conserved_on |-> conserved_on,
     epoch_attempt |-> epoch_attempt, safe_mode_attempt |-> safe_mode_attempt,
     effects |-> effects, runs |-> runs, run_vms |-> run_vms,
     input_charge |-> input_charge,
     estimated_size |-> estimated_size, written_size |-> written_size,
     checked_inputs |-> checked_inputs, rcc_result |-> rcc_result,
     status |-> status]

\* A second execution is lined up with the first at this point: the point
\* is remembered, and the answers to the next step will be recorded.
Fork ==
    /\ first_run = <<>>
    /\ pc \notin {"done", "halted"}
    /\ first_run' = <<"first", Locals>>
    /\ responses' = <<>>
    /\ UNCHANGED <<pc, transaction_kind, Mode, inputs, protocol_config, result,
                   writes, gas_charger, cost_summary, builder, i, vm, trace,
                   calls, checks, conserved_on, epoch_attempt,
                   safe_mode_attempt, effects, runs, run_vms, input_charge,
                   estimated_size, written_size, checked_inputs, rcc_result,
                   status, graph_vars>>

\* The first execution has taken its step: the second one starts from the
\* remembered point, with the same arguments, and will be given the answers
\* the first one got.
SecondExecution ==
    /\ Len(first_run) = 2
    /\ Locals # first_run[2]
    /\ first_run' = <<"second", first_run[2],
                      [responses |-> responses, locals |-> Locals]>>
    /\ responses' = <<>>
    /\ pc' = first_run[2].pc
    /\ result' = first_run[2].result
    /\ writes' = first_run[2].writes
    /\ gas_charger' = first_run[2].gas_charger
    /\ cost_summary' = first_run[2].cost_summary
    /\ builder' = first_run[2].builder
    /\ i' = first_run[2].i
    /\ vm' = first_run[2].vm
    /\ trace' = first_run[2].trace
    /\ calls' = first_run[2].calls
    /\ checks' = first_run[2].checks
    /\ conserved_on' = first_run[2].conserved_on
    /\ epoch_attempt' = first_run[2].epoch_attempt
    /\ safe_mode_attempt' = first_run[2].safe_mode_attempt
    /\ effects' = first_run[2].effects
    /\ runs' = first_run[2].runs
    /\ run_vms' = first_run[2].run_vms
    /\ input_charge' = first_run[2].input_charge
    /\ estimated_size' = first_run[2].estimated_size
    /\ written_size' = first_run[2].written_size
    /\ checked_inputs' = first_run[2].checked_inputs
    /\ rcc_result' = first_run[2].rcc_result
    /\ status' = first_run[2].status
    /\ UNCHANGED <<transaction_kind, Mode, inputs, protocol_config, graph_vars>>

\* One step of the engine; when a step is taken twice, the step from the
\* remembered point and no further one.
Step == Next /\ (first_run # <<>> => Locals = first_run[2])

TwiceNext == Step \/ Fork \/ SecondExecution

TwiceSpec == Init /\ [][TwiceNext]_vars

\* ------------------------------------------- one call of load_from_manifests
\* No transaction is executed meanwhile: the engine's variables keep the
\* values of one of its initial states.
ManifestInit ==
    /\ Init
    /\ transaction_kind = Kind("Genesis", <<>>, <<>>, 0)
    /\ Mode = "Genesis"
    /\ inputs.epoch_id = 0
    /\ ~inputs.enable_expensive_checks

ManifestNext ==
    \/ LoadFromManifests
    \/ VisitOccupied
    \/ VisitVacant
    \/ FetchCached
    \/ FetchLoad
    \/ AddEdge
    \/ FillNode
    \/ ConvertGraph

ManifestSpec == ManifestInit /\ [][ManifestNext]_vars

\* The same with the future of load_from_manifests polled until it is ready:
\* every await of the traversal is on a step of the traversal itself.
ManifestFairSpec == ManifestSpec /\ WF_vars(ManifestNext)

\* ------------------------------------- calls of PackageCache::fetch side by
\* side on one PackageGraphBuilder: each call runs up to its await in one
\* step, and from the return of Package::load to its own return in another.
FetchNext ==
    \/ \E path \in PackagePaths : Fetch(path)
    \/ \E t \in 1..MaxFetches : PackageLoad(t)

FetchSpec == ManifestInit /\ [][FetchNext]_vars

\* ================================================================== claims
\* The positions at which execute_transaction has returned without halting.
ReturnedPcs ==
    {"execute_transaction_return", "check_ownership_invariants",
     "into_effects", "done"}

is_genesis_tx == transaction_kind.tag = "Genesis"

Exempt == is_genesis_tx \/ skip_conservation_checks(Mode)

LastCall == IF trace = <<>> THEN "none" ELSE trace[Len(trace)]

ConservationError == Err("InvariantViolation(sui_conservation)")

\* C1: for a transaction that is not Genesis, in a mode that does not skip
\* the conservation checks, whenever execute_transaction has returned, the
\* last conservation pass (the cheap check, then the type-resolved check
\* when expensive checks are enabled) passed, and it passed on the store
\* state that is returned; the dispatched program may have failed.
C1_ConservedOnReturn ==
    (pc \in ReturnedPcs /\ ~Exempt) =>
        /\ checks # <<>>
        /\ checks[Len(checks)] = "conserved"
        /\ conserved_on = <<StoreState>>
        /\ Last("check_sui_conserved") > 0
        /\ inputs.enable_expensive_checks =>
               Last("check_sui_conserved_expensive") > Last("check_sui_conserved")

C1_Witness ==
    /\ pc = "done"
    /\ ~Exempt
    /\ Count("execute:programmable_transaction") = 1
    /\ Count("check_execution_results_consistency") = 0
    /\ checks = <<"violated", "conserved">>
    /\ inputs.enable_expensive_checks

\* C2: if the conservation pass fails and the pass after recovery fails as
\* well, execution has halted: no status is computed, no effects are
\* assembled and nothing is returned.
C2_FailStop ==
    (Len(checks) >= 2 /\ checks[1] = "violated" /\ checks[2] = "violated") =>
        /\ pc = "halted"
        /\ effects = <<>>
        /\ status = "none"
        /\ Count("into_effects") = 0

C2_Witness ==
    /\ checks = <<"violated", "violated">>
    /\ pc = "halted"
    /\ Count("reset") = 1

\* C3: once the first conservation pass has failed, recovery is: reset of
\* the gas charger (the pending writes are dropped, the storage accounting
\* starts again), then charge_gas, then the conservation check again, and
\* nothing in between; if the second pass succeeds, execute_transaction
\* returns the conservation error.
C3_RecoveryOrder ==
    /\ (checks # <<>> /\ checks[1] = "violated" /\ pc # "recovery") =>
           /\ First("reset") > 0
           /\ First("reset") > First("check_sui_conserved")
    /\ pc = "recovery_charge_gas" =>
           /\ LastCall = "reset"
           /\ writes = {} /\ ~gas_charger.storage
           /\ rcc_result = ConservationError
    /\ (First("reset") > 0 /\ pc \notin {"recovery_charge_gas"}) =>
           /\ trace[First("reset") + 1] = "charge_gas"
           /\ pc # "check_sui_conserved" =>
                  trace[First("reset") + 2] = "check_sui_conserved"
    /\ (pc \in ReturnedPcs /\ checks = <<"violated", "conserved">>) =>
           result = ConservationError

C3_Witness ==
    /\ pc = "execute_transaction_return"
    /\ checks = <<"violated", "conserved">>
    /\ result = ConservationError
    /\ Count("advance_epoch:Ok") = 1

\* C4: per transaction the recovery (reset, charge) runs at most once and
\* the conservation check is evaluated at most twice; when the first pass
\* succeeds there is no recovery step and no second pass.
C4_BoundedRecovery ==
    /\ Count("reset") <= 1
    /\ Len(checks) <= 2
    /\ Count("check_sui_conserved") <= 2
    /\ Count("check_sui_conserved_expensive") <= 2
    /\ Count("charge_gas") <= 2
    /\ (checks # <<>> /\ checks[1] = "conserved") =>
           /\ Len(checks) = 1
           /\ Count("reset") = 0
           /\ Count("check_sui_conserved") = 1
           /\ Count("charge_gas") = 1
           /\ pc \notin {"recovery", "recovery_charge_gas", "check_sui_conserved",
                          "check_sui_conserved_expensive"}

C4_Witness ==
    /\ Len(checks) = 2
    /\ Count("reset") = 1
    /\ Count("check_sui_conserved") = 2
    /\ Count("check_sui_conserved_expensive") = 2
    /\ Count("charge_gas") = 2

\* C5: for a Genesis transaction and for a mode that skips the conservation
\* checks, run_conservation_checks checks nothing, recovers nothing, returns
\* Ok, and its step changes neither the store, nor the gas charger, nor the
\* execution result.
C5_ExemptState ==
    Exempt =>
        /\ checks = <<>>
        /\ conserved_on = <<>>
        /\ Count("check_sui_conserved") = 0
        /\ Count("check_sui_conserved_expensive") = 0
        /\ Count("reset") = 0
        /\ Count("charge_gas") <= 1
        /\ rcc_result = Ok
        /\ pc \notin {"check_sui_conserved", "check_sui_conserved_expensive",
                       "recovery", "recovery_charge_gas"}

C5_ExemptFrame ==
    (Exempt /\ pc \in {"run_conservation_checks", "conservation_return"}) =>
        /\ writes' = writes
        /\ gas_charger' = gas_charger
        /\ result' = result
        /\ trace' = trace

\* C5: an exempt transaction (Genesis, or a mode that skips the checks) is
\* never checked or recovered, and the step of run_conservation_checks
\* leaves the store, the gas charger and the result as they are.
C5_Exempt == []C5_ExemptState /\ [][C5_ExemptFrame]_vars

C5_Witness ==
    /\ pc = "execute_transaction_return"
    /\ skip_conservation_checks(Mode)
    /\ ~is_genesis_tx
    /\ writes # {}
    /\ is_err(result)

\* C6: a call of execute_transaction_to_effects ends only halted or done;
\* when done, into_effects was called exactly once, with the status computed
\* from the returned result (Failure exactly for an error) and the gas cost
\* summary of the final charge; before that no effects exist.
C6_OneEffects ==
    /\ Len(effects) = Count("into_effects")
    /\ Len(effects) <= 1
    /\ pc # "done" => effects = <<>>
    /\ pc \notin {"done", "halted"} => ENABLED Next
    /\ pc = "done" =>
           /\ Len(effects) = 1
           /\ effects[1].status.tag \in {"Success", "Failure"}
           /\ effects[1].status.tag = "Failure" <=> is_err(result)
           /\ effects[1].status.tag = "Failure" =>
                  effects[1].status.error = result.kind
           /\ effects[1].gas_cost_summary = cost_summary
           /\ cost_summary = [charge |-> 1]

C6_Witness ==
    /\ pc = "done"
    /\ effects[1].status.tag = "Failure"
    /\ Count("execution_loop") = 0
    /\ result = Err("CertificateDenied")

\* C7: whenever execute_transaction has returned, whatever happened before
\* (input charge failed, short-circuit, dispatch error, limit violation), the
\* final gas charge was applied exactly where the code places it: after the
\* last limit check, directly before the routing of the unmetered storage
\* rebate, which is routed once and before any conservation check.
C7_FinalChargeOrder ==
    pc \in ReturnedPcs =>
        /\ First("charge_gas") > 0
        /\ gas_charger.charges >= 1
        /\ cost_summary = [charge |-> 1]
        /\ Last("check_meter_limit") < First("charge_gas")
        /\ Last("check_written_objects_limit") < First("charge_gas")
        /\ Last("execution_loop") < First("charge_gas")
        /\ Count("conserve_unmetered_storage_rebate") = 1
        /\ First("conserve_unmetered_storage_rebate") = First("charge_gas") + 1
        /\ First("check_sui_conserved") > 0 =>
               First("check_sui_conserved")
                   > First("conserve_unmetered_storage_rebate")

C7_Witness ==
    /\ pc = "execute_transaction_return"
    /\ result.kind = "EffectsTooLarge"
    /\ Count("execution_loop") = 1
    /\ Count("check_written_objects_limit") = 0
    /\ Count("check_sui_conserved") = 1

\* The positions inside advance_epoch after the advance-epoch program ran.
AdvanceEpochPcs ==
    {"drop_writes", "reset_storage_cost_and_rebate", "safe_mode",
     "system_packages_vm", "process_system_packages"}

FallbackCalls ==
    Count("advance_epoch_safe_mode") + Count("execute:advance_epoch_safe_mode")

\* C8: when the advance-epoch program has failed, advance_epoch is left
\* only by returning Ok (or by a panic): the failure is not the result of
\* advance_epoch; by the time it returns, the safe-mode fallback has run and
\* every system package of the list has been processed.
C8_SafeModeNotPropagated ==
    epoch_attempt = "failed" =>
        /\ Count("advance_epoch:Ok") = 0 => pc \in AdvanceEpochPcs \cup {"halted"}
        /\ Count("advance_epoch:Ok") = 1 =>
               /\ FallbackCalls = 1
               /\ Count("execute:publish") + Count("upgrade_system_package")
                      = Len(transaction_kind.system_packages)
               /\ First("advance_epoch:Ok") > Last("execute:publish")
               /\ First("advance_epoch:Ok") > Last("upgrade_system_package")
        /\ LastCall = "advance_epoch:Ok" =>
               /\ result = Ok
               /\ pc = AfterAdvanceEpoch(transaction_kind.tag)

C8_Witness ==
    /\ epoch_attempt = "failed"
    /\ LastCall = "advance_epoch:Ok"
    /\ Len(transaction_kind.system_packages) = 2
    /\ Count("execute:publish") = 1
    /\ Count("upgrade_system_package") = 1

\* C9 (as claimed): an epoch-change transaction whose dispatch was reached
\* never ends with an error result or a Failure status.
C9_EpochChangeNeverFails ==
    (pc = "done" /\ is_end_of_epoch_tx(transaction_kind)
                /\ Count("execution_loop") = 1) =>
        /\ is_ok(result)
        /\ effects[1].status.tag = "Success"

\* C10: when the advance-epoch program has failed, the fallback starts with
\* the pending writes dropped and the storage accounting reset, in that
\* order and directly after the failed run; the configuration chooses the
\* fallback: with advance_epoch_start_time_in_safe_mode the store is mutated
\* directly and no safe-mode program runs, without it the safe-mode program
\* is built and run; there is no fallback unless the program failed.
C10_SafeModeFallback ==
    /\ pc = "safe_mode" =>
           /\ epoch_attempt = "failed"
           /\ writes = {}
           /\ ~gas_charger.storage
           /\ LastCall = "reset_storage_cost_and_rebate"
           /\ trace[Len(trace) - 1] = "drop_writes"
           /\ trace[Len(trace) - 2] = "execute:advance_epoch"
    /\ FallbackCalls > 0 =>
           /\ epoch_attempt = "failed"
           /\ FallbackCalls = 1
           /\ First("drop_writes") > First("execute:advance_epoch")
           /\ First("reset_storage_cost_and_rebate") > First("drop_writes")
    /\ Count("advance_epoch_safe_mode") = 1 =>
           /\ protocol_config.advance_epoch_start_time_in_safe_mode
           /\ First("advance_epoch_safe_mode")
                  = First("reset_storage_cost_and_rebate") + 1
           /\ builder = construct_advance_epoch_pt(
                  SubSeq(builder, 1, Len(builder) - 4))
    /\ Count("execute:advance_epoch_safe_mode") = 1 =>
           /\ ~protocol_config.advance_epoch_start_time_in_safe_mode
           /\ First("execute:advance_epoch_safe_mode")
                  = First("reset_storage_cost_and_rebate") + 1
           /\ builder = construct_advance_epoch_safe_mode_pt
    /\ (epoch_attempt = "failed"
           /\ pc \notin {"drop_writes", "reset_storage_cost_and_rebate", "safe_mode"}) =>
           FallbackCalls = 1
    /\ epoch_attempt = "ok" =>
           /\ Count("drop_writes") = 0
           /\ Count("reset_storage_cost_and_rebate") = 0

C10_Witness ==
    /\ pc = "system_packages_vm"
    /\ Count("advance_epoch_safe_mode") = 1
    /\ writes = Written({"advance_epoch_safe_mode"})
    /\ Len(builder) = 5

\* The calls of process_system_packages and of the VM replacement before it.
PackageCalls ==
    Count("new_move_vm") + Count("execute:publish")
        + Count("upgrade_system_package")

\* C11: when the safe-mode advance-epoch program has failed, execution has
\* halted on the spot: the failure is not the execution result, no status
\* is computed from it, no effects exist, no system package is processed
\* and advance_epoch does not return.
C11_SafeModeFailureFatal ==
    /\ safe_mode_attempt = "failed" =>
           /\ pc = "halted"
           /\ LastCall = "execute:advance_epoch_safe_mode"
           /\ is_ok(result)
           /\ status = "none"
           /\ effects = <<>>
           /\ PackageCalls = 0
           /\ Count("advance_epoch:Ok") = 0
    /\ safe_mode_attempt # "none" <=> Count("execute:advance_epoch_safe_mode") = 1
    /\ Count("execute:advance_epoch_safe_mode") <= 1

C11_Witness ==
    /\ safe_mode_attempt = "failed"
    /\ pc = "halted"
    /\ writes # {}
    /\ Len(transaction_kind.system_packages) = 2

\* C12: in one call of advance_epoch the advance-epoch program is executed
\* once (exactly once by the time anything follows it), the writes are
\* dropped and the accounting reset at most once, the fallback (direct
\* mutation or safe-mode program) runs at most once and only after the
\* program, and the program is not executed again after the fallback.
C12_OneAttemptOneFallback ==
    /\ Count("execute:advance_epoch") <= 1
    /\ FallbackCalls <= 1
    /\ Count("drop_writes") <= 1
    /\ Count("reset_storage_cost_and_rebate") <= 1
    /\ epoch_attempt # "none" <=> Count("execute:advance_epoch") = 1
    /\ (pc \in AdvanceEpochPcs \/ Count("advance_epoch:Ok") = 1) =>
           Count("execute:advance_epoch") = 1
    /\ Count("advance_epoch_safe_mode") = 1 =>
           Last("execute:advance_epoch") < First("advance_epoch_safe_mode")
    /\ Count("execute:advance_epoch_safe_mode") = 1 =>
           Last("execute:advance_epoch")
               < First("execute:advance_epoch_safe_mode")
    /\ Count("advance_epoch:Ok") <= 1

C12_Witness ==
    /\ Count("advance_epoch:Ok") = 1
    /\ Count("execute:advance_epoch") = 1
    /\ Count("execute:advance_epoch_safe_mode") = 1
    /\ safe_mode_attempt = "ok"
    /\ pc = "done"

\* The calls that hand a program to the VM, and those made so far, in order;
\* runs holds their outcomes in the same order.
VMCalls ==
    {"execute:consensus_commit_prologue", "execute:programmable_transaction",
     "execute:state_update", "execute:advance_epoch",
     "execute:advance_epoch_safe_mode", "execute:publish"}

VMTrace == SelectSeq(trace, LAMBDA e : e \in VMCalls)

\* Whether a run of the program handed over by call e has failed.
Failed(e) == \E n \in 1..Len(runs) : VMTrace[n] = e /\ ~runs[n]

\* The calls process_system_packages has made so far, in order, and the call
\* it makes for a package of version v.
PackageTrace ==
    SelectSeq(trace,
              LAMBDA e : e \in {"execute:publish", "upgrade_system_package"})

PackageCall(v) ==
    IF v = OBJECT_START_VERSION THEN "execute:publish"
    ELSE "upgrade_system_package"

\* C13: the system packages are processed only after the epoch-advance step
\* is over (the program succeeded, or it failed and the fallback ran), in
\* list order, one call per package: a Publish program for a package at the
\* initial version, an in-place upgrade otherwise; advance_epoch returns
\* only after the whole list; a failed Publish program halts execution.
C13_SystemPackagesInOrder ==
    /\ Len(runs) = Len(VMTrace)
    /\ Len(PackageTrace) <= Len(transaction_kind.system_packages)
    /\ \A n \in 1..Len(PackageTrace) :
           PackageTrace[n] = PackageCall(transaction_kind.system_packages[n])
    /\ pc = "process_system_packages" => Len(PackageTrace) = i - 1
    /\ PackageTrace # <<>> =>
           /\ \/ epoch_attempt = "ok" /\ FallbackCalls = 0
              \/ epoch_attempt = "failed" /\ FallbackCalls = 1
                     /\ safe_mode_attempt # "failed"
           /\ First(PackageTrace[1]) > Last("execute:advance_epoch")
           /\ First(PackageTrace[1]) > Last("advance_epoch_safe_mode")
           /\ First(PackageTrace[1]) > Last("execute:advance_epoch_safe_mode")
    /\ Count("advance_epoch:Ok") = 1 =>
           /\ Len(PackageTrace) = Len(transaction_kind.system_packages)
           /\ Last("execute:publish") < First("advance_epoch:Ok")
           /\ Last("upgrade_system_package") < First("advance_epoch:Ok")
    /\ Failed("execute:publish") =>
           /\ pc = "halted"
           /\ LastCall = "execute:publish"
           /\ effects = <<>>

C13_Witness ==
    /\ LastCall = "advance_epoch:Ok"
    /\ epoch_attempt = "ok"
    /\ transaction_kind.system_packages
           = <<OBJECT_START_VERSION + 1, OBJECT_START_VERSION>>
    /\ PackageTrace = <<"upgrade_system_package", "execute:publish">>

\* The pending writes, or the committed ones, that are upgraded packages.
Upgrades(ws) == {w \in ws : w.by = "upgrade_system_package"}

\* The listed versions other than the initial one.
UpgradeVersions ==
    {transaction_kind.system_packages[n] :
        n \in 1..Len(transaction_kind.system_packages)} \ {OBJECT_START_VERSION}

\* C14: the object handed to the store for a listed package of version v
\* other than the initial version has version v - 1, and the effects show
\* it at version v; a package at the initial version is never handed over
\* as an upgrade, so nothing is decremented for it.
C14_UpgradeVersion ==
    /\ LastCall = "upgrade_system_package" =>
           LET v == transaction_kind.system_packages[i - 1]
           IN  /\ v # OBJECT_START_VERSION
               /\ [by |-> "upgrade_system_package", version |-> v - 1] \in writes
    /\ \A w \in Upgrades(writes) : w.version + 1 \in UpgradeVersions
    /\ Count("upgrade_system_package") =
           Cardinality({n \in 1..Len(PackageTrace) :
               transaction_kind.system_packages[n] # OBJECT_START_VERSION})
    /\ pc = "done" =>
           /\ \A w \in Upgrades(effects[1].writes) : w.version \in UpgradeVersions
           /\ (is_ok(result) /\ Count("advance_epoch:Ok") = 1) =>
                  \A v \in UpgradeVersions :
                      [by |-> "upgrade_system_package", version |-> v]
                          \in effects[1].writes

C14_Witness ==
    /\ pc = "done"
    /\ is_ok(result)
    /\ transaction_kind.system_packages
           = <<OBJECT_START_VERSION, OBJECT_START_VERSION + 1>>
    /\ Upgrades(effects[1].writes)
           = {[by |-> "upgrade_system_package",
               version |-> OBJECT_START_VERSION + 1]}

\* C15: an EndOfEpochTransaction whose list does not consist of actions
\* other than ChangeEpoch followed by one final ChangeEpoch (a ChangeEpoch
\* at a non-final index, no ChangeEpoch, the empty list) never gets past
\* the loop once dispatched: it halts there with the epoch not advanced, no
\* program run and no effects; advance_epoch is entered at most once per
\* transaction and, for an EndOfEpochTransaction, only at the last element.
C15_ChangeEpochLast ==
    /\ (transaction_kind.tag = "EndOfEpochTransaction"
           /\ ~ReachesAdvanceEpoch(transaction_kind)
           /\ Count("execution_loop") = 1) =>
           /\ pc \in {"execution_loop", "end_of_epoch_loop", "halted"}
           /\ Count("execute:advance_epoch") = 0
           /\ epoch_attempt = "none"
           /\ runs = <<>>
           /\ writes = {}
           /\ effects = <<>>
           /\ LastCall = "execution_loop"
    /\ pc = "end_of_epoch_loop" => ENABLED Next
    /\ Count("execute:advance_epoch") <= 1
    /\ Count("execution_loop") <= 1
    /\ (pc = "advance_epoch" \/ Count("execute:advance_epoch") = 1) =>
           ReachesAdvanceEpoch(transaction_kind)
    /\ (pc = "advance_epoch" /\ transaction_kind.tag = "EndOfEpochTransaction") =>
           /\ i = Len(transaction_kind.txns)
           /\ transaction_kind.txns[i] = "ChangeEpoch"
           /\ Count("execute:advance_epoch") = 0

C15_Witness ==
    /\ pc = "halted"
    /\ transaction_kind.tag = "EndOfEpochTransaction"
    /\ transaction_kind.txns = <<"ChangeEpoch", "AuthenticatorStateCreate">>
    /\ i = 1
    /\ Count("execution_loop") = 1

\* The move calls of the maintenance actions txs, in list order.
RECURSIVE MaintenanceCalls(_)
MaintenanceCalls(txs) ==
    IF txs = <<>> THEN <<>>
    ELSE Setup(txs[1], <<>>) \o MaintenanceCalls(Tail(txs))

\* The commands that end the advance-epoch program.
AdvanceEpochCommands ==
    <<"balance::create_staking_rewards(storage_charge)",
      "balance::create_staking_rewards(computation_charge)",
      "sui_system::advance_epoch", "balance::destroy_storage_rebates">>

\* C16: inside the loop of an EndOfEpochTransaction the builder holds the
\* calls of the maintenance actions seen so far, in list order, and nothing
\* has been run or written; the first program the VM gets is the
\* advance-epoch program, which is those calls for the whole list followed
\* by the two reward-minting calls, advance_epoch and the destruction of
\* the storage rebates.
C16_OneCombinedProgram ==
    transaction_kind.tag = "EndOfEpochTransaction" =>
        /\ pc = "end_of_epoch_loop" =>
               /\ builder = MaintenanceCalls(SubSeq(transaction_kind.txns, 1, i - 1))
               /\ runs = <<>>
               /\ VMTrace = <<>>
               /\ writes = {}
        /\ pc = "advance_epoch" =>
               /\ runs = <<>>
               /\ builder = MaintenanceCalls(
                      SubSeq(transaction_kind.txns, 1,
                             Len(transaction_kind.txns) - 1))
        /\ VMTrace # <<>> => VMTrace[1] = "execute:advance_epoch"
        /\ LastCall = "execute:advance_epoch" =>
               /\ Len(runs) = 1
               /\ builder = MaintenanceCalls(
                      SubSeq(transaction_kind.txns, 1,
                             Len(transaction_kind.txns) - 1))
                      \o AdvanceEpochCommands
               /\ runs[1] => writes = Written(Commands(builder))

C16_Witness ==
    /\ LastCall = "execute:advance_epoch"
    /\ transaction_kind.txns
           = <<"BridgeCommitteeInit", "ChangeEpoch">>
    /\ Len(builder) = 6
    /\ runs = <<TRUE>>

\* C17: with a denied certificate, an ended input stream or a cancellation
\* marker, execution_loop is never called, no program runs and no genesis
\* object is created.  The result the chain yields (it is evaluated once the
\* input-object charge has succeeded) is the error of the first condition
\* that holds: CertificateDenied, InputObjectDeleted, a cancellation kind.
\* It is the result handed to the effects-size check; the returned result
\* is an error, and it is that one unless a later stage replaced it.
C17_ShortCircuit ==
    ShortCircuitOf(inputs) # "dispatch" =>
        /\ Count("execution_loop") = 0
        /\ runs = <<>>
        /\ VMTrace = <<>>
        /\ Count("create_object") = 0
        /\ pc \notin {"execution_loop", "end_of_epoch_loop", "advance_epoch",
                       "consistency"}
        /\ pc = "check_meter_limit" =>
               /\ ShortCircuitOf(inputs) # "panic"
               /\ is_err(result)
               /\ result.kind = ShortCircuitOf(inputs)
               /\ result.kind \in
                      {"CertificateDenied", "InputObjectDeleted",
                       "ExecutionCancelledDueToSharedObjectCongestion",
                       "ExecutionCancelledDueToRandomnessUnavailable"}
               /\ inputs.deny_cert => result.kind = "CertificateDenied"
               /\ (~inputs.deny_cert /\ inputs.contains_stream_ended_input) =>
                      result.kind = "InputObjectDeleted"
               /\ LastCall = "charge_input_objects"
        /\ pc \in ReturnedPcs =>
               /\ is_err(result)
               /\ result.kind \in {ShortCircuitOf(inputs), "EffectsTooLarge",
                                    "InsufficientGas", ConservationError.kind}
               /\ Count("check_meter_limit") = 0 =>
                      result.kind \in {"InsufficientGas", ConservationError.kind}
               /\ Count("check_meter_limit") = 1 =>
                      result.kind # "InsufficientGas"
               /\ Count("check_written_objects_limit") = 0

C17_Witness ==
    /\ pc = "done"
    /\ inputs.deny_cert
    /\ inputs.cancelled_objects = "CONGESTED"
    /\ result = Err("CertificateDenied")
    /\ effects[1].status.tag = "Failure"
    /\ Count("check_meter_limit") = 1

\* The match on the cancellation marker is reached: the certificate is not
\* denied, no input stream has ended and a marker is present.
MarkerDecides ==
    /\ ~inputs.deny_cert
    /\ ~inputs.contains_stream_ended_input
    /\ inputs.cancelled_objects # "None"

\* C18: when the cancellation marker decides, the result the chain yields
\* is, for CONGESTED, ExecutionCancelledDueToSharedObjectCongestion carrying
\* exactly the cancelled object ids (same ids, same order) and, for
\* RANDOMNESS_UNAVAILABLE, ExecutionCancelledDueToRandomnessUnavailable
\* carrying none.  Any other marker never yields a result: the chain halts
\* right after the input-object charge, with no effects, and neither limit
\* check nor the dispatch is ever reached; a Failure status is then only
\* ever the one of a failed input-object charge, which skips the chain.
C18_CancellationMarker ==
    MarkerDecides =>
        /\ (pc = "check_meter_limit" /\ inputs.cancelled_objects = "CONGESTED") =>
               /\ result = ErrCongested(inputs.cancelled_ids)
               /\ result.kind = "ExecutionCancelledDueToSharedObjectCongestion"
               /\ result.congested_objects = inputs.cancelled_ids
        /\ (pc = "check_meter_limit"
              /\ inputs.cancelled_objects = "RANDOMNESS_UNAVAILABLE") =>
               /\ result = Err("ExecutionCancelledDueToRandomnessUnavailable")
               /\ result.congested_objects = <<>>
        /\ inputs.cancelled_objects \notin {"CONGESTED", "RANDOMNESS_UNAVAILABLE"} =>
               /\ pc \notin {"check_meter_limit", "check_written_objects_limit",
                              "execution_loop"}
               /\ Count("check_meter_limit") = 0
               /\ Count("execution_loop") = 0
               /\ LastCall = "charge_input_objects" =>
                      pc \in {"short_circuit", "halted", "charge_gas"}
               /\ pc = "halted" => effects = <<>>
               /\ (pc = "halted" /\ Count("charge_gas") = 0) =>
                      LastCall = "charge_input_objects"
               /\ pc \in {"check_ownership_invariants", "into_effects", "done"} =>
                      /\ Count("charge_gas") >= 1
                      /\ status.tag = "Failure"
                      /\ status.error \in
                             {"InsufficientGas", ConservationError.kind}

C18_Witness ==
    /\ MarkerDecides
    /\ inputs.cancelled_objects = "CONGESTED"
    /\ inputs.cancelled_ids = <<"0xb", "0xa">>
    /\ pc = "done"
    /\ result = ErrCongested(<<"0xb", "0xa">>)
    /\ effects[1].status.tag = "Failure"

\* An unknown marker halts the engine.
C18_WitnessHalt ==
    /\ MarkerDecides
    /\ inputs.cancelled_objects = "CANCELLED_READ"
    /\ pc = "halted"

\* The dispatch, a program or a genesis object has been reached.
Dispatched ==
    \/ pc = "execution_loop"
    \/ Count("execution_loop") > 0
    \/ runs # <<>>
    \/ Count("create_object") > 0

\* C19: smash_gas is the first call and charge_input_objects the second,
\* each made once; nothing is dispatched, no program runs and no genesis
\* object is created before the input-object charge has been applied and
\* has succeeded.  When the charge fails the short-circuit chain, the
\* dispatch and the limit checks are all skipped, the result is the
\* charge's error when charge_gas is called, charge_gas is called before
\* execute_transaction returns, and the transaction ends with a Failure
\* status in its effects.
C19_ChargeBeforeDispatch ==
    /\ Count("smash_gas") <= 1
    /\ Count("charge_input_objects") <= 1
    /\ trace # <<>> => trace[1] = "smash_gas"
    /\ Len(trace) >= 2 => trace[2] = "charge_input_objects"
    /\ input_charge = "none" <=> Count("charge_input_objects") = 0
    /\ Dispatched =>
           /\ input_charge = "ok"
           /\ Len(trace) >= 2
    /\ pc \in {"short_circuit", "check_meter_limit",
                "check_written_objects_limit"} => input_charge = "ok"
    /\ input_charge = "failed" =>
           /\ ~Dispatched
           /\ VMTrace = <<>>
           /\ Count("check_meter_limit") = 0
           /\ Count("check_written_objects_limit") = 0
           /\ Len(trace) >= 3 => trace[3] = "charge_gas"
           /\ (pc = "charge_gas" /\ Count("charge_gas") = 0) =>
                  result = Err("InsufficientGas")
           /\ pc \in ReturnedPcs =>
                  /\ Count("charge_gas") >= 1
                  /\ is_err(result)
                  /\ cost_summary # NoSummary
           /\ pc = "done" =>
                  /\ Len(effects) = 1
                  /\ effects[1].status.tag = "Failure"

C19_Witness ==
    /\ input_charge = "failed"
    /\ pc = "done"
    /\ Len(effects) = 1
    /\ result = Err("InsufficientGas")
    /\ Count("charge_gas") = 1
    /\ Count("execution_loop") = 0

\* The hard limit of the effects size of this transaction.
EffectsHardLimit == IF inputs.unmetered THEN SystemLim ELSE NormalLim

\* The estimated size crosses the hard limit.
HardCrossing(size) ==
    check_limit_by_meter(~inputs.unmetered, size, NormalLim, SystemLim).crossed
        = "Hard"

\* C20: at the effects-size check, whatever the result was before (the
\* success or error of the dispatch, or the error of a short-circuit), a
\* hard crossing makes it the error EffectsTooLarge with current_size the
\* estimated size and max_size the hard limit, and a soft crossing or no
\* crossing leaves it as it was.  An EffectsTooLarge result always carries
\* the hard limit and a size not below it, and after it the written-objects
\* check is skipped.
C20_EffectsTooLarge ==
    /\ [][pc = "meter_check" =>
              LET size == estimated_size[1]
              IN  /\ HardCrossing(size) <=> size >= EffectsHardLimit
                  /\ HardCrossing(size) =>
                         /\ result' = [tag |-> "Err", kind |-> "EffectsTooLarge",
                                       current_size |-> size,
                                       max_size |-> EffectsHardLimit,
                                       congested_objects |-> <<>>]
                         /\ pc' = "charge_gas"
                  /\ ~HardCrossing(size) =>
                         /\ result' = result
                         /\ pc' = IF is_ok(result)
                                  THEN "check_written_objects_limit"
                                  ELSE "charge_gas"]_vars
    /\ [](/\ pc = "meter_check" <=> estimated_size # <<>>
          /\ result.kind = "EffectsTooLarge" =>
                 /\ is_err(result)
                 /\ result.max_size = EffectsHardLimit
                 /\ result.current_size >= result.max_size
                 /\ pc # "check_written_objects_limit")

\* An earlier short-circuit error has been replaced.
C20_Witness ==
    /\ pc = "done"
    /\ ShortCircuitOf(inputs) = "CertificateDenied"
    /\ inputs.unmetered
    /\ result = ErrSize("EffectsTooLarge", SystemLim + 1, SystemLim)
    /\ effects[1].status.error = "EffectsTooLarge"

\* An earlier success of the dispatch has been replaced.
C20_WitnessSuccess ==
    /\ pc = "charge_gas"
    /\ LastCall = "check_meter_limit"
    /\ runs # <<>>
    /\ \A n \in 1..Len(runs) : runs[n]
    /\ ~inputs.unmetered
    /\ result = ErrSize("EffectsTooLarge", NormalLim, NormalLim)

\* A soft crossing has left an earlier success as it was.
C20_WitnessSoft ==
    /\ pc = "check_written_objects_limit"
    /\ inputs.unmetered
    /\ result = Ok

\* The hard limit of the written-objects size of this transaction; only an
\* unmetered transaction has a soft limit, the limit of a metered one.
WrittenHardLimit == IF inputs.unmetered THEN SystemLim ELSE NormalLim

\* C21: check_written_objects_limit runs only on a success.  With both
\* limits configured, a written size at or above the hard limit (so hard
\* limit + 1) makes the result the failure WrittenObjectsTooLarge with
\* current_size the written size and max_size the hard limit; a smaller
\* size, a soft crossing included (so soft limit + 1 of an unmetered
\* transaction), leaves the success as it was.  Either way the final gas
\* charge comes next.
C21_WrittenObjectsLimit ==
    /\ [][pc = "gas_check" =>
              LET size == written_size[1]
                  TooLarge == [tag |-> "Err", kind |-> "WrittenObjectsTooLarge",
                               current_size |-> size,
                               max_size |-> WrittenHardLimit,
                               congested_objects |-> <<>>]
              IN  /\ size >= WrittenHardLimit => result' = TooLarge
                  /\ size = WrittenHardLimit + 1 => result' = TooLarge
                  /\ size < WrittenHardLimit => result' = Ok
                  /\ (inputs.unmetered /\ size = NormalLim + 1
                        /\ NormalLim + 1 < SystemLim) => result' = Ok
                  /\ pc' = "charge_gas"]_vars
    /\ [](/\ pc = "gas_check" <=> written_size # <<>>
          /\ pc \in {"check_written_objects_limit", "gas_check"} => result = Ok
          /\ result.kind = "WrittenObjectsTooLarge" =>
                 /\ is_err(result)
                 /\ result.max_size = WrittenHardLimit
                 /\ result.current_size >= result.max_size
                 /\ Count("check_written_objects_limit") = 1)

\* A hard crossing at hard limit + 1 has failed the transaction.
C21_Witness ==
    /\ pc = "done"
    /\ inputs.unmetered
    /\ result = ErrSize("WrittenObjectsTooLarge", SystemLim + 1, SystemLim)
    /\ effects[1].status.error = "WrittenObjectsTooLarge"

\* A soft crossing at soft limit + 1 is about to be checked.
C21_WitnessSoft ==
    /\ pc = "gas_check"
    /\ inputs.unmetered
    /\ written_size = <<NormalLim + 1>>
    /\ NormalLim + 1 < SystemLim

C23_GenesisObjects ==
    is_genesis_tx =>
        /\ runs = <<>>
        /\ VMTrace = <<>>
        /\ Count("create_object") \in {0, transaction_kind.objects}
        /\ pc = "consistency" =>
               LET N == transaction_kind.objects
               IN  /\ inputs.epoch_id = 0
                   /\ result = Ok
                   /\ Count("create_object") = N
                   /\ N > 0 => /\ First("create_object") = Last("execution_loop") + 1
                               /\ Last("create_object") = Len(trace)
                   /\ Cardinality(writes) = N
                   /\ \A n \in 1..N :
                          \E w \in writes :
                              /\ w.data = RawObject(n).data
                              /\ w.owner = RawObject(n).owner
                   /\ \A w \in writes :
                          /\ \E n \in 1..N :
                                 /\ w.data = RawObject(n).data
                                 /\ w.owner = RawObject(n).owner
                          /\ w.previous_transaction = TxDigest
                          /\ w.storage_rebate = 0

C23_Witness ==
    /\ is_genesis_tx
    /\ pc = "consistency"
    /\ transaction_kind.objects = MaxObjects
    /\ Cardinality(writes) = MaxObjects
    /\ Count("create_object") = MaxObjects

C24_WitnessKinds ==
    /\ transaction_kind.tag = "ConsensusCommitPrologueV4"
    /\ runs = <<TRUE>>
    /\ pc = "done"
    /\ result = Ok

\* execution_loop has just returned to execute_transaction.
LoopReturned == pc = "check_meter_limit" /\ Count("execution_loop") = 1

\* C25 (as claimed): whenever execution_loop has returned, for every kind,
\* either its branch failed (the result is that error and no check is due)
\* or the consistency check was its last call, and the result is then the
\* branch's success or the check's error.
C25_ConsistencyAfterEveryBranch ==
    LoopReturned =>
        IF Count("check_execution_results_consistency") = 0
        THEN is_err(result)
        ELSE /\ Count("check_execution_results_consistency") = 1
             /\ LastCall = "check_execution_results_consistency"
             /\ \/ result = Ok
                \/ result = Err("InvariantViolation(execution_results)")

\* The same for every kind other than EndOfEpochTransaction, whose
\* ChangeEpoch branch returns from execution_loop by itself.
C25_ConsistencyExceptEndOfEpoch ==
    /\ transaction_kind.tag # "EndOfEpochTransaction" =>
           C25_ConsistencyAfterEveryBranch
    /\ transaction_kind.tag = "EndOfEpochTransaction" =>
           Count("check_execution_results_consistency") = 0

\* An EndOfEpochTransaction has left execution_loop with success and
\* without the consistency check.
C25_Unchecked ==
    /\ LoopReturned
    /\ transaction_kind.tag = "EndOfEpochTransaction"
    /\ LastCall = "advance_epoch:Ok"
    /\ result = Ok
    /\ Count("check_execution_results_consistency") = 0

C26_WitnessUnverified ==
    /\ pc = "done"
    /\ Mode = "Normal"
    /\ ~inputs.enable_expensive_checks
    /\ Count("check_ownership_invariants") = 0

C27_WitnessEffects ==
    /\ Len(first_run) = 3
    /\ pc = "done"
    /\ Len(effects) = 1
    /\ effects[1].status.tag = "Failure"
    /\ effects[1].writes # {}

\* A failed run of the advance-epoch program was taken twice.
C27_WitnessVM ==
    /\ Len(first_run) = 3
    /\ Locals # first_run[2]
    /\ Len(responses) = 1
    /\ responses[1][1] = "vm"
    /\ ~responses[1][2].ok
    /\ epoch_attempt = "failed"

\* ------------------------------------------------------------------ C28
\* The step applies the setup function of a maintenance transaction to the
\* builder in flight.
SetupApplied ==
    /\ pc = "end_of_epoch_loop"
    /\ i <= Len(transaction_kind.txns)
    /\ transaction_kind.txns[i] \in MaintenanceKinds
    /\ i' = i + 1

\* The builder after the step is the one before it with n calls appended.
AppendsCalls(n) ==
    /\ Len(builder') = Len(builder) + n
    /\ SubSeq(builder', 1, Len(builder)) = builder

\* C28 as claimed: every setup function appends exactly one function call
\* to the builder it is given and keeps the commands already in it.
C28_OneCallEach == [][SetupApplied => AppendsCalls(1)]_vars

\* C28: every setup function keeps the commands already in the builder, in
\* order, and returns the builder with its calls appended: one call, except
\* for the bridge committee initialisation, which appends two, the call
\* reading the validators' voting powers and then the call initialising the
\* committee with them.
C28_SetupAppends ==
    [][SetupApplied =>
          IF transaction_kind.txns[i] = "BridgeCommitteeInit"
          THEN /\ AppendsCalls(2)
               /\ SubSeq(builder', Len(builder) + 1, Len(builder) + 2)
                      = <<"sui_system::validator_voting_powers",
                          "bridge::init_bridge_committee">>
          ELSE AppendsCalls(1)]_vars

\* The bridge committee initialisation was applied to a builder that held a
\* call already.
C28_Witness ==
    /\ pc = "end_of_epoch_loop"
    /\ transaction_kind.tag = "EndOfEpochTransaction"
    /\ i = 3
    /\ transaction_kind.txns[2] = "BridgeCommitteeInit"
    /\ Len(builder) = 3
    /\ builder[1] = "bridge::create"

\* A setup function with one call was applied to a builder that held the two
\* calls of the bridge committee initialisation.
C28_WitnessOne ==
    /\ pc = "end_of_epoch_loop"
    /\ transaction_kind.tag = "EndOfEpochTransaction"
    /\ i = 3
    /\ transaction_kind.txns[1] = "BridgeCommitteeInit"
    /\ transaction_kind.txns[2] = "AccumulatorRootCreate"
    /\ Len(builder) = 3

\* ------------------------------------------------------------------ C29
\* The VM instance process_system_packages is to be given.
PackagesVM ==
    IF protocol_config.fresh_vm_on_framework_upgrade THEN "fresh" ELSE "caller"

\* The step runs a program on the VM: the call that hands it over is the
\* last call of the trace after the step.
RunsProgram == Len(run_vms') = Len(run_vms) + 1

\* C29: when the protocol configuration requires a fresh VM on framework
\* upgrade, process_system_packages is entered with a VM constructed just
\* before, by the one call of new_move_vm, and runs its programs on it, while
\* the advance-epoch program and the safe-mode program have run on the
\* caller's VM; when the configuration does not require it,
\* process_system_packages is entered with the caller's VM, runs its
\* programs on it, and new_move_vm is never called.
C29_FreshVMForPackages ==
    /\ [](pc = "process_system_packages" =>
             /\ vm = PackagesVM
             /\ Count("new_move_vm")
                    = IF protocol_config.fresh_vm_on_framework_upgrade
                      THEN 1 ELSE 0)
    /\ [](~protocol_config.fresh_vm_on_framework_upgrade =>
             /\ vm = "caller"
             /\ Count("new_move_vm") = 0)
    /\ [][RunsProgram =>
             /\ run_vms'[Len(run_vms')] = vm
             /\ LastCall' \in {"execute:advance_epoch",
                                "execute:advance_epoch_safe_mode"}
                    => run_vms'[Len(run_vms')] = "caller"
             /\ LastCall' = "execute:publish"
                    => run_vms'[Len(run_vms')] = PackagesVM]_vars

\* With the configuration set, the advance-epoch program failed and the
\* safe-mode program ran, both on the caller's VM, and a system package was
\* published on the fresh one.
C29_Witness ==
    /\ protocol_config.fresh_vm_on_framework_upgrade
    /\ run_vms = <<"caller", "caller", "fresh">>
    /\ epoch_attempt = "failed"
    /\ safe_mode_attempt = "ok"
    /\ LastCall = "execute:publish"
    /\ Count("new_move_vm") = 1

\* Without it, the advance-epoch program and a publish ran on the caller's
\* VM, and no VM was constructed.
C29_WitnessReuse ==
    /\ ~protocol_config.fresh_vm_on_framework_upgrade
    /\ run_vms = <<"caller", "caller">>
    /\ LastCall = "execute:publish"
    /\ pc = "process_system_packages"
    /\ Count("new_move_vm") = 0

\* ------------------------------------------------------------------ C30
\* The node indices of the calls of add_transitive_manifest_deps that have
\* added their node and have not returned yet.
InProgress == {stack[n].index : n \in 1..Len(stack)} \ {0}

\* C30: when the traversal started by load_from_manifests returns
\* successfully, every node of the graph is Some, and the conversion that
\* follows never meets a None.  During the traversal a None node is the
\* placeholder of a call that is still in progress.
C30_NoPlaceholderLeft ==
    /\ load_pc # "panicked"
    /\ load_pc \in {"traverse", "convert"} =>
           \A n \in DOMAIN graph.nodes :
               graph.nodes[n] = None => n \in InProgress
    /\ load_pc = "convert" =>
           /\ stack = <<>>
           /\ graph.nodes # <<>>
           /\ \A n \in DOMAIN graph.nodes : graph.nodes[n] # None

\* The traversal of a graph with a dependency cycle through the root has
\* returned, and the graph was converted.
C30_Witness ==
    /\ load_pc = "ok"
    /\ \E e \in DOMAIN graph.edges :
           /\ graph.edges[e].to = root_idx
           /\ graph.edges[e].from # root_idx

\* The same for a graph with a dependency shared by two packages.
C30_WitnessShared ==
    /\ load_pc = "ok"
    /\ \E e, f \in DOMAIN graph.edges :
           /\ graph.edges[e].to = graph.edges[f].to
           /\ graph.edges[e].from # graph.edges[f].from
           /\ graph.edges[e].to # root_idx

\* A repeated visit returned the index of a node that was still None: a
\* package of a cycle met again while its own call was in progress.
C30_WitnessCycleMet ==
    /\ load_pc = "traverse"
    /\ stack # <<>>
    /\ Top.at = "edge"
    /\ graph.nodes[Top.dep_index] = None

\* ------------------------------------------------------------------ C31
\* The edges that leave node n.
OutEdges(n) == {e \in DOMAIN graph.edges : graph.edges[e].from = n}

\* The call in progress is a repeated visit: its key is in visited already.
RepeatedVisit ==
    /\ load_pc = "traverse"
    /\ stack # <<>>
    /\ Top.at = "entry"
    /\ Key(Top) \in DOMAIN visited

\* Every key of visited has a node of its own, and the graph has no other
\* node; a node that was filled is the node of its key and has one outgoing
\* edge per dependency its package declares; the node of a call in progress
\* has one per dependency its loop has finished.
C31_OneNode ==
    /\ Len(graph.nodes) = Cardinality(DOMAIN visited)
    /\ \A k \in DOMAIN visited : visited[k] \in DOMAIN graph.nodes
    /\ \A k, l \in DOMAIN visited : visited[k] = visited[l] => k = l
    /\ load_pc \in {"traverse", "convert"} =>
           \A k \in DOMAIN visited :
               graph.nodes[visited[k]] # None =>
                   /\ graph.nodes[visited[k]][1].use_env = k[1]
                   /\ graph.nodes[visited[k]][1].package.path = k[2]
                   /\ Cardinality(OutEdges(visited[k])) =
                          Len(graph.nodes[visited[k]][1].package.direct_deps)
    /\ load_pc = "ok" =>
           \A k \in DOMAIN visited :
               /\ graph.nodes[visited[k]].use_env = k[1]
               /\ graph.nodes[visited[k]].package.path = k[2]
               /\ Cardinality(OutEdges(visited[k])) =
                      Len(graph.nodes[visited[k]].package.direct_deps)
    /\ \A n \in 1..Len(stack) :
           stack[n].at # "entry" =>
               /\ visited[Key(stack[n])] = stack[n].index
               /\ Cardinality(OutEdges(stack[n].index)) = stack[n].next - 1
               /\ \A m \in 1..Len(stack) : stack[m].index = stack[n].index => m = n

\* A repeated visit changes neither the graph nor visited, and hands the index
\* stored for the key to the loop of its caller.
C31_VisitReturns ==
    RepeatedVisit =>
        /\ graph' = graph
        /\ visited' = visited
        /\ Len(stack') = Len(stack) - 1
        /\ stack'[Len(stack')].at = "edge"
        /\ stack'[Len(stack')].dep_index = visited[Key(Top)]

\* C31: during one manifest traversal each (environment name, package path)
\* pair is assigned at most one graph node: a repeated visit returns the
\* existing node index, adds no node, and adds no outgoing edges for that
\* package or its dependencies again.
C31_AtMostOneNode == []C31_OneNode /\ [][C31_VisitReturns]_vars

\* A package was visited again after its call had returned: the index handed
\* back is the one of a filled node, and the graph has as many nodes as before.
C31_Witness ==
    /\ load_pc = "traverse"
    /\ stack # <<>>
    /\ Top.at = "edge"
    /\ Top.dep_index < Len(graph.nodes)
    /\ graph.nodes[Top.dep_index] # None
    /\ Cardinality(OutEdges(Top.dep_index)) > 0

\* ------------------------------------------------------------------ C32
\* C32: PackageCache::fetch returns the cached package for a dependency path:
\* all successful fetches of the same path return the same package instance,
\* namely the one stored in the cache cell for that path, including fetches
\* that run concurrently and start before the cell has been populated.
C32_SameInstance ==
    \A t \in DOMAIN fetches :
        fetches[t].at = "ok" =>
            /\ cache[fetches[t].path] # None
            /\ fetches[t].returned = cache[fetches[t].path]

\* What holds of the code: a cell that holds a package keeps it; a fetch that
\* found the cell populated returned the instance in it; and a fetch that
\* loaded returned the instance it made itself, which is the one in the cell
\* only if no other fetch of the path populated the cell first.
C32_CellKept ==
    \A p \in PackagePaths : cache[p] # None => cache'[p] = cache[p]

C32_ReturnedState ==
    \A t \in DOMAIN fetches :
        fetches[t].at = "ok" =>
            /\ cache[fetches[t].path] # None
            /\ ~fetches[t].loads => fetches[t].returned = cache[fetches[t].path]
            /\ \A u \in DOMAIN fetches :
                   (/\ u # t
                    /\ fetches[u].at = "ok"
                    /\ fetches[u].path = fetches[t].path
                    /\ fetches[u].returned # fetches[t].returned)
                       => fetches[u].loads \/ fetches[t].loads

C32_OwnInstanceWhenLoaded == []C32_ReturnedState /\ [][C32_CellKept]_vars

\* Two fetches of one path that both started before the cell was populated
\* have both succeeded, and returned two instances: the second is not the one
\* in the cell.
C32_Race ==
    \E t, u \in DOMAIN fetches :
        /\ fetches[t].at = "ok"
        /\ fetches[u].at = "ok"
        /\ fetches[t].path = fetches[u].path
        /\ fetches[t].returned = cache[fetches[t].path]
        /\ fetches[u].returned # cache[fetches[u].path]
        /\ fetches[u].returned[1].ptr > fetches[t].returned[1].ptr

\* ------------------------------------------------------------------ C33
\* A step of check_sui_conserved, and what it found.
CheapCheckStep == pc = "check_sui_conserved" /\ pc' # pc

CheapCheckFails == CheapCheckStep /\ checks' = Append(checks, "violated")

\* In either pass the type-resolved check is pending only with expensive
\* checks enabled and right after a check_sui_conserved that ended no pass;
\* it has never run otherwise, and never more often than the cheap check.
C33_ExpensiveState ==
    /\ Count("check_sui_conserved_expensive") > 0 =>
           inputs.enable_expensive_checks
    /\ Count("check_sui_conserved_expensive") <= Count("check_sui_conserved")
    /\ pc = "check_sui_conserved_expensive" =>
           /\ inputs.enable_expensive_checks
           /\ LastCall = "check_sui_conserved"
           /\ Pass \in {1, 2}
           /\ Count("check_sui_conserved") = Pass
           /\ Count("check_sui_conserved_expensive") < Pass
    /\ pc = "recovery" =>
           /\ LastCall \in {"check_sui_conserved",
                            "check_sui_conserved_expensive"}
           /\ checks = <<"violated">>

\* A failed cheap check ends the pass as violated and leads straight to the
\* recovery (first pass) or the panic (recovery pass), the cheap check being
\* the last call made; a cheap check that passes is followed by the
\* type-resolved check exactly when expensive checks are enabled.
C33_CheapStep ==
    /\ CheapCheckFails =>
           /\ pc' = (IF Pass = 1 THEN "recovery" ELSE "halted")
           /\ trace'[Len(trace')] = "check_sui_conserved"
           /\ Count("check_sui_conserved_expensive")' =
                  Count("check_sui_conserved_expensive")
    /\ (CheapCheckStep /\ ~CheapCheckFails) =>
           pc' = (IF inputs.enable_expensive_checks
                  THEN "check_sui_conserved_expensive"
                  ELSE "conservation_return")
    /\ Count("check_sui_conserved_expensive")' #
           Count("check_sui_conserved_expensive") =>
           /\ pc = "check_sui_conserved_expensive"
           /\ LastCall = "check_sui_conserved"

\* C33: in both the first and the recovery conservation pass, the
\* type-resolved (expensive) conservation check is run only when expensive
\* checks are enabled and the cheap check has passed; when the cheap check
\* fails the expensive check is not run and the cheap check's error is the
\* one that triggers recovery.
C33_ExpensiveAfterCheap == []C33_ExpensiveState /\ [][C33_CheapStep]_vars

\* The cheap check of the first pass failed with expensive checks enabled:
\* recovery is about to start and the type-resolved check has not run.
C33_Witness ==
    /\ pc = "recovery"
    /\ inputs.enable_expensive_checks
    /\ LastCall = "check_sui_conserved"
    /\ Count("check_sui_conserved_expensive") = 0

\* The type-resolved check is pending in the recovery pass, after the first
\* pass failed in its cheap check.
C33_WitnessRecoveryPass ==
    /\ pc = "check_sui_conserved_expensive"
    /\ Pass = 2
    /\ Count("check_sui_conserved_expensive") = 0

\* The cheap check of the recovery pass failed with expensive checks enabled.
C33_WitnessRecoveryFails ==
    /\ pc = "halted"
    /\ checks = <<"violated", "violated">>
    /\ inputs.enable_expensive_checks
    /\ LastCall = "check_sui_conserved"

\* ------------------------------------------------------------------ C34
\* The summary gas_charger.charge_gas returns for its n-th call.
SummaryOfCharge(n) == [charge |-> n]

\* The recovery of run_conservation_checks has charged gas again.
Recharged == Count("reset") = 1 /\ pc # "recovery_charge_gas"

\* Once recovery has charged again there have been two final charges, and
\* the summary execute_transaction holds, which the conservation checks of
\* the recovery pass are given and which goes into the effects, is the one of
\* the first.
C34_SummaryState ==
    Recharged =>
        /\ gas_charger.charges = 2
        /\ Count("charge_gas") = 2
        /\ cost_summary = SummaryOfCharge(1)
        /\ cost_summary # SummaryOfCharge(gas_charger.charges)
        /\ pc = "done" => effects[1].gas_cost_summary = SummaryOfCharge(1)

\* The recovery charge and everything after it leave the summary alone.
C34_SummaryKept ==
    Count("reset") = 1 => cost_summary' = cost_summary

\* C34: when conservation recovery runs, the gas cost summary returned by
\* execute_transaction and placed in the effects is the summary of the first
\* final gas charge (taken before recovery); the summary produced by the
\* recovery re-charge is discarded, and the recovery re-check is evaluated
\* against the original summary.
C34_FirstSummaryKept == []C34_SummaryState /\ [][C34_SummaryKept]_vars

\* Effects were assembled after a recovery whose re-check passed.
C34_Witness ==
    /\ pc = "done"
    /\ Count("reset") = 1
    /\ gas_charger.charges = 2
    /\ effects[1].gas_cost_summary = SummaryOfCharge(1)

\* The re-check of the recovery pass is pending.
C34_WitnessRecheck ==
    /\ pc = "check_sui_conserved"
    /\ Pass = 2
    /\ gas_charger.charges = 2
    /\ cost_summary = SummaryOfCharge(1)

\* ------------------------------------------------------------------ C35
\* The calls of the maintenance actions that precede ChangeEpoch in the list
\* of an EndOfEpochTransaction.
MaintenanceCommands ==
    Commands(MaintenanceCalls(SubSeq(transaction_kind.txns, 1,
                                     Len(transaction_kind.txns) - 1)))

\* The advance-epoch program of an EndOfEpochTransaction has failed and its
\* writes have been dropped.
AttemptDropped ==
    /\ transaction_kind.tag = "EndOfEpochTransaction"
    /\ epoch_attempt = "failed"
    /\ Count("drop_writes") = 1

\* C35: when the advance-epoch program of an EndOfEpochTransaction fails,
\* none of the maintenance actions that preceded ChangeEpoch in the list take
\* effect: their writes are dropped together with the failed attempt, and
\* they are neither included in the safe-mode program nor executed again.
C35_MaintenanceDropped ==
    /\ Commands(construct_advance_epoch_safe_mode_pt) \cap
           UNION {Commands(Setup(tx, <<>>)) : tx \in MaintenanceKinds} = {}
    /\ AttemptDropped =>
           /\ \A w \in writes : w.by \notin MaintenanceCommands
           /\ Count("execute:advance_epoch") = 1
           /\ Count("execute:advance_epoch_safe_mode") = 1 =>
                  /\ builder = construct_advance_epoch_safe_mode_pt
                  /\ Commands(builder) \cap MaintenanceCommands = {}
           /\ Len(runs) = 1 + Count("execute:advance_epoch_safe_mode")
                            + Count("execute:publish")
           /\ pc = "done" =>
                  \A w \in effects[1].writes : w.by \notin MaintenanceCommands

\* An EndOfEpochTransaction with maintenance actions has returned its
\* effects after its advance-epoch program failed and the safe-mode program
\* ran in its place.
C35_Witness ==
    /\ pc = "done"
    /\ AttemptDropped
    /\ MaintenanceCommands # {}
    /\ Count("execute:advance_epoch_safe_mode") = 1
    /\ effects[1].writes # {}

\* The failed attempt had left writes of maintenance actions, which are
\* about to be dropped.
C35_WitnessWrites ==
    /\ pc = "drop_writes"
    /\ transaction_kind.tag = "EndOfEpochTransaction"
    /\ \E w \in writes : w.by \in MaintenanceCommands

\* ------------------------------------------------------------------ C36
\* The loop of an EndOfEpochTransaction is at a maintenance action.
AtMaintenance ==
    /\ pc = "end_of_epoch_loop"
    /\ i <= Len(transaction_kind.txns)
    /\ transaction_kind.txns[i] \in MaintenanceKinds

\* A feature the action at hand asserts is disabled.
FeatureDisabled ==
    FeaturesOf(transaction_kind.txns[i]) \cap protocol_config.disabled # {}

\* The features asserted are the seven named; whatever call is in the
\* builder, and whatever program has run, every maintenance action passed so
\* far had its features enabled; and an EndOfEpochTransaction that halted in
\* its loop, the dispatch being the last call made, has run no program and
\* written nothing.
C36_GateState ==
    /\ Features = {"enable_jwk_consensus_updates", "random_beacon",
                   "enable_coin_deny_list_v1", "enable_bridge",
                   "should_try_to_finalize_bridge_committee",
                   "ExecutionTimeEstimate", "enable_accumulators"}
    /\ \A tx \in MaintenanceKinds : FeaturesOf(tx) # {}
    /\ (transaction_kind.tag = "EndOfEpochTransaction"
           /\ pc = "end_of_epoch_loop") =>
           /\ runs = <<>>
           /\ \A n \in 1..(i - 1) :
                  FeaturesOf(transaction_kind.txns[n])
                      \cap protocol_config.disabled = {}
    /\ (transaction_kind.tag = "EndOfEpochTransaction"
           /\ (pc = "advance_epoch" \/ runs # <<>>)) =>
           \A n \in 1..Len(transaction_kind.txns) :
               FeaturesOf(transaction_kind.txns[n])
                   \cap protocol_config.disabled = {}
    /\ (transaction_kind.tag = "EndOfEpochTransaction"
           /\ pc = "halted"
           /\ LastCall = "execution_loop") =>
           /\ runs = <<>>
           /\ writes = {}
           /\ Count("execute:advance_epoch") = 0
           /\ effects = <<>>

\* A maintenance action whose feature is disabled halts at once; one whose
\* features are enabled is accepted: its call is appended and the loop goes on.
C36_GateStep ==
    AtMaintenance =>
        IF FeatureDisabled
        THEN /\ pc' = "halted"
             /\ builder' = builder
             /\ runs' = <<>>
             /\ trace' = trace
        ELSE /\ pc' = "end_of_epoch_loop"
             /\ i' = i + 1
             /\ builder' = Setup(transaction_kind.txns[i], builder)

\* C36: in an EndOfEpochTransaction each maintenance action is accepted only
\* when its protocol feature is enabled (JWK consensus updates, random
\* beacon, coin deny list, bridge and bridge-committee finalization,
\* execution-time-estimate congestion mode, accumulators); an action whose
\* feature is disabled halts execution fatally, and this happens before any
\* program of that transaction has been executed.
C36_FeatureGated == []C36_GateState /\ [][C36_GateStep]_vars

\* The second action of a list halted on its disabled feature, after the
\* first was accepted.
C36_Witness ==
    /\ pc = "halted"
    /\ transaction_kind.tag = "EndOfEpochTransaction"
    /\ i = 2
    /\ i <= Len(transaction_kind.txns)
    /\ transaction_kind.txns[i] \in MaintenanceKinds
    /\ FeatureDisabled
    /\ builder # <<>>
    /\ runs = <<>>

\* A committee initialisation halted with the bridge enabled and the
\* finalisation of the committee disabled.
C36_WitnessFinalize ==
    /\ pc = "halted"
    /\ transaction_kind.tag = "EndOfEpochTransaction"
    /\ i <= Len(transaction_kind.txns)
    /\ transaction_kind.txns[i] = "BridgeCommitteeInit"
    /\ protocol_config.disabled = {"should_try_to_finalize_bridge_committee"}

\* ------------------------------------------------------------------ C37
\* The error charge_input_objects returns.
InputChargeError == Err("InsufficientGas")

\* When charging for input objects has failed, neither execution_loop nor
\* either limit check has been called, and the final gas charge is handed the
\* charge's error; the written-objects check is pending, or has been called,
\* only after a successful charge and an effects-size check that left a
\* success.
C37_SkippedState ==
    /\ input_charge = "failed" =>
           /\ Count("execution_loop") = 0
           /\ Count("check_meter_limit") = 0
           /\ Count("check_written_objects_limit") = 0
           /\ runs = <<>>
           /\ pc = "charge_gas" =>
                  /\ result = InputChargeError
                  /\ LastCall = "charge_input_objects"
           /\ Count("charge_gas") >= 1 =>
                  trace[First("charge_gas") - 1] = "charge_input_objects"
    /\ pc = "check_written_objects_limit" =>
           /\ is_ok(result)
           /\ input_charge = "ok"
           /\ LastCall = "check_meter_limit"
    /\ Count("check_written_objects_limit") > 0 =>
           /\ input_charge = "ok"
           /\ Count("check_written_objects_limit") = 1
           /\ Count("check_meter_limit") = 1
           /\ First("check_written_objects_limit")
                  = First("check_meter_limit") + 1

\* The failed charge goes straight to the final gas charge with its error;
\* after the effects-size check an error goes straight to the final gas
\* charge and a success to the written-objects check.
C37_SkippedStep ==
    /\ (pc = "charge_input_objects" /\ input_charge' = "failed") =>
           /\ pc' = "charge_gas"
           /\ result' = InputChargeError
    /\ pc = "meter_check" =>
           pc' = (IF is_ok(result') THEN "check_written_objects_limit"
                  ELSE "charge_gas")
    /\ Count("check_written_objects_limit")' #
           Count("check_written_objects_limit") =>
           /\ pc = "check_written_objects_limit"
           /\ is_ok(result)

\* C37: if charging for input objects fails, neither the dispatch nor the
\* effects-size check nor the written-objects check is run and the charge's
\* error is the result handed to the final gas charge; likewise the
\* written-objects check is run only when the result is still a success
\* after the effects-size check.
C37_FailedChargeSkips == []C37_SkippedState /\ [][C37_SkippedStep]_vars

\* The input charge failed and the final gas charge has been applied to its
\* error.
C37_Witness ==
    /\ input_charge = "failed"
    /\ pc = "conserve_unmetered_storage_rebate"
    /\ LastCall = "charge_gas"
    /\ result = InputChargeError

\* The effects-size check turned a successful dispatch into an error, and
\* the final gas charge is next: the written-objects check is skipped.
C37_WitnessMeter ==
    /\ pc = "charge_gas"
    /\ LastCall = "check_meter_limit"
    /\ Count("execution_loop") = 1
    /\ result.kind = "EffectsTooLarge"

\* The dispatch failed, the effects-size check passed, and the
\* written-objects check is skipped.
C37_WitnessDispatchError ==
    /\ pc = "charge_gas"
    /\ LastCall = "check_meter_limit"
    /\ Count("execution_loop") = 1
    /\ is_err(result)
    /\ result.kind # "EffectsTooLarge"

\* ------------------------------------------------------------------ C38
\* The markers the match on the cancellation reason has an arm for.
KnownMarkers == {"CONGESTED", "RANDOMNESS_UNAVAILABLE"}

\* The chain yields the error e and goes on to the effects-size check.
Yields(e) == pc' = "check_meter_limit" /\ result'.tag = "Err" /\ result'.kind = e

\* One step through the chain, by precedence.
C38_ChainStep ==
    pc = "short_circuit" =>
        IF inputs.deny_cert THEN Yields("CertificateDenied")
        ELSE IF inputs.contains_stream_ended_input
            THEN Yields("InputObjectDeleted")
        ELSE IF inputs.cancelled_objects = "CONGESTED"
            THEN Yields("ExecutionCancelledDueToSharedObjectCongestion")
        ELSE IF inputs.cancelled_objects = "RANDOMNESS_UNAVAILABLE"
            THEN Yields("ExecutionCancelledDueToRandomnessUnavailable")
        ELSE IF inputs.cancelled_objects # "None" THEN pc' = "halted"
        ELSE pc' = "execution_loop"

\* The engine halted inside the chain: right after a successful input charge.
HaltedInChain ==
    /\ pc = "halted"
    /\ input_charge = "ok"
    /\ LastCall = "charge_input_objects"

C38_ChainState ==
    /\ HaltedInChain =>
           /\ ~inputs.deny_cert
           /\ ~inputs.contains_stream_ended_input
           /\ inputs.cancelled_objects \notin KnownMarkers \cup {"None"}
    /\ (pc = "check_meter_limit" /\ inputs.deny_cert) =>
           result = Err("CertificateDenied")
    /\ (pc = "check_meter_limit" /\ ~inputs.deny_cert
           /\ inputs.contains_stream_ended_input) =>
           result = Err("InputObjectDeleted")

\* C38: when several short-circuit conditions hold at once, the reported
\* error follows the fixed precedence certificate denied, then input object
\* deleted, then cancellation; in particular an invalid cancellation marker
\* halts fatally only when neither of the first two conditions holds.
C38_Precedence == []C38_ChainState /\ [][C38_ChainStep]_vars

\* All three conditions hold, the marker being an invalid one: the chain
\* yielded CertificateDenied and did not halt.
C38_Witness ==
    /\ pc = "check_meter_limit"
    /\ inputs.deny_cert
    /\ inputs.contains_stream_ended_input
    /\ inputs.cancelled_objects \notin KnownMarkers \cup {"None"}
    /\ result = Err("CertificateDenied")

\* An ended input stream and a congestion marker: InputObjectDeleted.
C38_WitnessDeleted ==
    /\ pc = "check_meter_limit"
    /\ ~inputs.deny_cert
    /\ inputs.contains_stream_ended_input
    /\ inputs.cancelled_objects = "CONGESTED"
    /\ result = Err("InputObjectDeleted")

\* An ended input stream and an invalid marker: no halt, the execution ends
\* with effects.
C38_WitnessNoHalt ==
    /\ pc = "done"
    /\ ~inputs.deny_cert
    /\ inputs.contains_stream_ended_input
    /\ inputs.cancelled_objects \notin KnownMarkers \cup {"None"}
    /\ result = Err("InputObjectDeleted")

\* ------------------------------------------------------------------ C39
\* The call of fetch that a step starts.
Started == fetches'[Len(fetches')]

\* A cell holds nothing or a package some load has read for its path, and
\* holds nothing as long as no fetch of its path has succeeded.
C39_CellState ==
    \A p \in PackagePaths :
        /\ cache[p] # None =>
               /\ cache[p][1].ptr \in 1..Len(loaded)
               /\ cache[p][1].path = p
               /\ loaded[cache[p][1].ptr].path = p
        /\ (\A t \in DOMAIN fetches :
                fetches[t].path = p => fetches[t].at # "ok") =>
               cache[p] = None

\* A fetch that fails leaves every cell as it was and returns no package; a
\* fetch that starts on an empty cell goes on to load, whatever failed
\* before; one that starts on a populated cell returns the package in it
\* and loads nothing.
C39_FetchStep ==
    /\ \A t \in DOMAIN fetches :
           (fetches[t].at = "load" /\ fetches'[t].at = "err") =>
               /\ cache' = cache
               /\ loaded' = loaded
               /\ fetches'[t].returned = None
    /\ Len(fetches') = Len(fetches) + 1 =>
           /\ cache' = cache
           /\ loaded' = loaded
           /\ IF cache[Started.path] = None
              THEN /\ Started.at = "load"
                   /\ Started.loads
              ELSE /\ Started.at = "ok"
                   /\ ~Started.loads
                   /\ Started.returned = cache[Started.path]

C39_WitnessRetry ==
    \E t \in DOMAIN fetches :
        /\ fetches[t].retry
        /\ fetches[t].at = "load"
        /\ cache[fetches[t].path] = None

\* ------------------------------------------------------------------ C40
\* The keys visited can hold.
Keys == EnvironmentNames \X PackagePaths

\* A call that is past its entry has its key in visited, so that the key is
\* recorded before any dependency of the package is traversed; the calls in
\* progress past their entry have keys of their own; hence there are never
\* more nodes than keys, nor more calls in progress than keys and one.
C40_ExpandedOnce ==
    /\ DOMAIN visited \subseteq Keys
    /\ \A n \in 1..Len(stack) :
           /\ stack[n].at # "entry" => Key(stack[n]) \in DOMAIN visited
           /\ n < Len(stack) => stack[n].at = "deps"
           /\ \A m \in 1..Len(stack) :
                  (/\ stack[m].at # "entry"
                   /\ stack[n].at # "entry"
                   /\ Key(stack[m]) = Key(stack[n])) => m = n
    /\ Len(graph.nodes) <= Cardinality(Keys)
    /\ Len(stack) <= Cardinality(Keys) + 1

\* The traversal has returned to load_from_manifests, with an index or with
\* an error.
Returned == load_pc \in {"convert", "ok", "err"}

\* C40: the manifest traversal add_transitive_manifest_deps terminates on
\* every finite dependency graph, including graphs with dependency cycles,
\* because a package is recorded as visited (with a placeholder node) before
\* its dependencies are traversed, so each (environment name, path) pair is
\* expanded at most once.
C40_Terminates ==
    /\ []C40_ExpandedOnce
    /\ (load_pc = "traverse") ~> Returned

\* The traversal returned from a graph in which the root depends on itself
\* and a second package depends on the root.
C40_Witness ==
    /\ load_pc = "ok"
    /\ \E e, f \in DOMAIN graph.edges :
           /\ graph.edges[e].from = root_idx
           /\ graph.edges[e].to = root_idx
           /\ graph.edges[f].from # root_idx
           /\ graph.edges[f].to = root_idx

\* Five calls are in progress at once, one path being expanded under both
\* environment names.
C40_WitnessDeep ==
    /\ Len(stack) = 5
    /\ \E m, n \in 1..Len(stack) :
           /\ m # n
           /\ stack[m].at # "entry"
           /\ stack[n].at # "entry"
           /\ stack[m].package.path = stack[n].package.path
====
